---------------------------- MODULE Spec2Model ----------------------------
(***************************************************************************)
(* AirFryHub: the client-side forum application.                           *)
(*                                                                         *)
(* The module models the React components' state (useState cells, the      *)
(* react-query mutation/query state they read) and the requests they have  *)
(* in flight.  Each handler of the source is one action; an awaited remote *)
(* call splits its handler in two actions (the call, and the reply).       *)
(*                                                                         *)
(* Strings whose content never matters are modelled by their shape: the    *)
(* number of leading white-space characters, the length of the trimmed     *)
(* text, the number of trailing white-space characters and whether the     *)
(* trimmed text parses as a URL.                                           *)
(***************************************************************************)
EXTENDS Integers, Sequences, FiniteSets, TLC

(***************************************************************************)
(* Bounds of the model.                                                    *)
(***************************************************************************)
MaxPad == 1
MaxWrites == 2
MaxMounts == 3

(***************************************************************************)
(* Program constants.                                                      *)
(***************************************************************************)
TitleRequired == 1
TitleMin == 3
TitleMax == 200
ContentMax == 2000

AVAILABLE_FLAGS == <<"recipe", "tip", "question", "review", "beginner">>

(***************************************************************************)
(* JavaScript values: strings, null and undefined.                         *)
(***************************************************************************)
Str(lead, core, trail, url) ==
    [kind |-> "str", lead |-> lead, core |-> core, trail |-> trail, url |-> url]

EmptyStr == Str(0, 0, 0, FALSE)

Null == [kind |-> "null", lead |-> 0, core |-> 0, trail |-> 0, url |-> FALSE]

Undefined ==
    [kind |-> "undefined", lead |-> 0, core |-> 0, trail |-> 0, url |-> FALSE]

\* String.prototype.length
StrLen(s) == s.lead + s.core + s.trail

\* String.prototype.trim
Trim(s) == [s EXCEPT !.lead = 0, !.trail = 0]

\* JavaScript truthiness of a string | null | undefined
Truthy(v) == v.kind = "str" /\ StrLen(v) > 0

\* a || b
OrElse(a, b) == IF Truthy(a) THEN a ELSE b

\* new URL(s) succeeds: the URL parser strips surrounding white space
IsUrl(s) == s.kind = "str" /\ s.url

(***************************************************************************)
(* createPostSchema (zod).  Every check of a string runs, so a title that  *)
(* is too short for min(1) also fails min(3).                              *)
(***************************************************************************)
Issue(path, message) == [path |-> path, message |-> message]

TitleIssuesOffByOne(v) ==
    IF v.kind # "str" THEN << Issue("title", "Required") >>
    ELSE (IF StrLen(v) <= TitleMin
            THEN << Issue("title", "Title must be at least 3 characters") >>
            ELSE << >>)
      \o (IF StrLen(v) > TitleMax
            THEN << Issue("title", "Title must be less than 200 characters") >>
            ELSE << >>)

TitleIssues(v) ==
    IF v.kind # "str" THEN << Issue("title", "Required") >>
    ELSE (IF StrLen(v) < TitleRequired
            THEN << Issue("title", "Title is required") >> ELSE << >>)
      \o (IF StrLen(v) < TitleMin
            THEN << Issue("title", "Title must be at least 3 characters") >>
            ELSE << >>)
      \o (IF StrLen(v) > TitleMax
            THEN << Issue("title", "Title must be less than 200 characters") >>
            ELSE << >>)

ContentIssuesOffByOne(v) ==
    IF v.kind = "undefined" THEN << >>
    ELSE IF v.kind # "str" THEN << Issue("content", "Expected string") >>
    ELSE IF StrLen(v) >= ContentMax
      THEN << Issue("content", "Content must be less than 2000 characters") >>
      ELSE << >>

ContentIssues(v) ==
    IF v.kind = "undefined" THEN << >>
    ELSE IF v.kind # "str" THEN << Issue("content", "Expected string") >>
    ELSE IF StrLen(v) > ContentMax
      THEN << Issue("content", "Content must be less than 2000 characters") >>
      ELSE << >>

\* the url() check left out: any string passes
UrlIssuesAnyString(path, v) ==
    IF v.kind = "undefined" \/ v.kind = "str" THEN << >>
    ELSE << Issue(path, "Invalid input") >>

\* z.string().url(msg).optional().or(z.literal("")): undefined, a URL or ""
\* pass; a string that is no URL reports the url() message; any other value
\* (null included) matches no member of the union.
UrlIssues(path, v) ==
    IF v.kind = "undefined" THEN << >>
    ELSE IF v.kind = "str" /\ (IsUrl(v) \/ StrLen(v) = 0) THEN << >>
    ELSE IF v.kind = "str" THEN << Issue(path, "Please enter a valid URL") >>
    ELSE << Issue(path, "Invalid input") >>

createPostSchema(input) ==
    LET issues == TitleIssues(input.title)
               \o ContentIssues(input.content)
               \o UrlIssues("image_url", input.image_url)
               \o UrlIssues("link_url", input.link_url)
    IN  [success |-> issues = << >>, issues |-> issues, data |-> input]

(***************************************************************************)
(* Record<string, string> maps (the errors state).                         *)
(***************************************************************************)
NoErrors == [k \in {} |-> ""]

Put(m, k, v) == [x \in DOMAIN m \cup {k} |-> IF x = k THEN v ELSE m[x]]

\* issues.forEach(issue => { if (issue.path[0]) errorMap[issue.path[0]] = message })
RECURSIVE ErrorMap(_, _)
ErrorMap(issues, acc) ==
    IF issues = << >> THEN acc
    ELSE ErrorMap(Tail(issues), Put(acc, Head(issues).path, Head(issues).message))


(***************************************************************************)
(* Error messages.  A validation failure is thrown as                      *)
(* new Error(JSON.stringify(errorMap)) and recognised in onError by        *)
(* JSON.parse(error.message) succeeding; a message of the platform is      *)
(* plain text, on which JSON.parse throws.                                 *)
(***************************************************************************)
NoMessage == [json |-> FALSE, map |-> NoErrors, text |-> ""]

JSONstringify(map) == [json |-> TRUE, map |-> map, text |-> ""]

PlainMessage(text) == [json |-> FALSE, map |-> NoErrors, text |-> text]

JSONparse(msg) == [ok |-> msg.json, value |-> msg.map]

RemoteMessages == { PlainMessage("remote error") }

(***************************************************************************)
(* State.                                                                  *)
(***************************************************************************)
VARIABLES
    \* the auth client and the useOwner hook instances
    session,        \* user id of the persisted session, 0 when there is none
    nextUid,        \* the id the next anonymous sign-in is given
    signInCalls,    \* number of signInAnonymously calls made
    signInOks,      \* number of anonymous identities created
    hook,           \* hook[i]: the i-th mounted instance of useOwner
    \* the router
    route,          \* "feed", "create", "post", "edit" or "chips"
    \* CreatePost / EditPost
    title, content, imageUrl, linkUrl, selectedFlags,
    isSubmitting, errors, successMessage,
    postMutation,   \* createPostMutation / updatePostMutation: status, error
    writeReqs,      \* insert/update requests to the posts table in flight
    writesSent,     \* number of insert/update requests sent
    redirectTimer,  \* the setTimeout(navigate, 1500) is pending
    lastSubmit,     \* history: what the mutationFn last validated, and its verdict
    \* PostPage
    dbUpvotes,      \* the upvotes column of the post, at the backend
    postQuery,      \* the ["post", id] query
    upvoteMutation, \* status of upvoteMutation
    upvoteReqs,     \* increment_upvotes calls in flight, by phase
    upvoteError,
    upvoteClicks,   \* history: clicks on the upvote button
    rpcCalls,       \* history: increment_upvotes calls made
    ownApplied,     \* history: increments the backend applied for this client
    rpcFailed,      \* history: increment_upvotes calls the backend refused
    lastFetched,    \* history: upvotes returned by the last completed fetch
    \* Feed
    dbPosts,        \* the posts table, at the backend
    searchTerm, sortBy, selectedFilters,
    feedQuery,      \* the ["posts", searchTerm, sortBy, selectedFilters] query
    cleared,        \* history: "Clear filters" was the last change of the key
    \* FilterChips (its parent's state)
    chipFilters,
    \* history: the last two tag toggles
    toggles,
    \* useTheme
    storedTheme,    \* localStorage["airfryhub-theme"], "none" when absent
    prefersDark,    \* matchMedia("(prefers-color-scheme: dark)").matches
    theme,
    darkClass,      \* document.documentElement has the class "dark"
    themeReady,     \* the effect of useTheme has run
    themeToggles,   \* history: toggleTheme calls since the page was loaded
    pageLoads,      \* history: loads of the page
    \* ImageUpload (in CreatePost)
    isUploading, uploadProgress,
    uploadReq,      \* the storage upload in flight, and the onError it holds
    progressInterval, \* the setInterval of the simulated progress is active
    resetTimer,     \* the setTimeout that resets the progress is pending
    lastFile,       \* history: the file handleFileUpload last got, and the
                    \* number of its calls
    uploadsStarted, \* history: storage uploads requested
    storageOk,      \* history: uploads the storage accepted
    storageFailed,  \* history: uploads that failed
    uploadedCalls,  \* history: onImageUploaded calls
    uploadErrorCalls, \* history: onError calls made for a storage upload
    \* PostPage: owner controls and comment form
    postOwner,      \* user_id of the post, 0 for a post saved without one
    deleteMutation, \* status of deletePostMutation
    deleteReqs,     \* delete requests in flight
    deleteCalls,    \* history: delete requests sent
    deleteFrom,     \* the page whose deletePostMutation is in flight
    newComment, isSubmittingComment, commentError,
    commentReqs,    \* comment inserts in flight, by phase
    commentCalls,   \* history: comment inserts sent
    commentSubmits, \* history: runs of handleCommentSubmit
    \* LinkPreview
    previewUrl,     \* the url prop; NoUrl while the component is not rendered
    previewData,    \* the hostname the preview was built from, or NoPreview
    previewIsLoading, previewError,
    previewTimers,  \* the simulated fetches still waiting, oldest first
    urlChanges,     \* history: changes of the url prop
    \* the QueryClient
    cache           \* per query key: not cached, fresh, or invalidated

ownerVars == << session, nextUid, signInCalls, signInOks, hook >>

formVars == << title, content, imageUrl, linkUrl, selectedFlags, isSubmitting,
               errors, successMessage, postMutation, writeReqs, writesSent,
               redirectTimer, lastSubmit >>

postVars == << dbUpvotes, postQuery, upvoteMutation, upvoteReqs, upvoteError,
               upvoteClicks, rpcCalls, ownApplied, rpcFailed, lastFetched >>

feedVars == << dbPosts, searchTerm, sortBy, selectedFilters, feedQuery,
               cleared >>

tagVars == << chipFilters, toggles >>

themeVars == << storedTheme, prefersDark, theme, darkClass, themeReady,
                themeToggles, pageLoads >>

uploadVars == << isUploading, uploadProgress, uploadReq, progressInterval,
                 resetTimer, lastFile, uploadsStarted, storageOk, storageFailed,
                 uploadedCalls, uploadErrorCalls >>

ownVars == << postOwner, deleteMutation, deleteReqs, deleteCalls, deleteFrom >>

commentVars == << newComment, isSubmittingComment, commentError, commentReqs,
                  commentCalls, commentSubmits >>

previewVars == << previewUrl, previewData, previewIsLoading, previewError,
                  previewTimers, urlChanges >>

\* the components beside the pages
widgetVars == << themeVars, uploadVars, ownVars, commentVars, previewVars >>

\* and the query cache they share
sideVars == << widgetVars, cache >>

vars == << ownerVars, route, formVars, postVars, feedVars, tagVars, sideVars >>

\* what the actions of one component leave alone
notOwner == << route, formVars, postVars, feedVars, tagVars, sideVars >>
notForm == << postVars, feedVars, tagVars, sideVars >>
notPost == << route, formVars, feedVars, tagVars, sideVars >>
notFeed == << route, formVars, postVars, sideVars >>

(***************************************************************************)
(* useOwner.                                                               *)
(***************************************************************************)
Instances == 1 .. MaxMounts

NoUser == 0

NoError == "none"

\* useState initial values; pc is the position of checkAuth
UnmountedHook ==
    [mounted |-> FALSE, pc |-> "idle", userId |-> NoUser, isLoading |-> TRUE,
     error |-> NoError, initEvent |-> FALSE, retries |-> 0]

\* the effect has run: checkAuth has set isLoading/error and called
\* getSession, and onAuthStateChange has subscribed
MountedHook ==
    [mounted |-> TRUE, pc |-> "getSession", userId |-> NoUser,
     isLoading |-> TRUE, error |-> NoError, initEvent |-> TRUE, retries |-> 0]

\* a hook whose checkAuth found the session of user u
SettledHook(u) ==
    [mounted |-> TRUE, pc |-> "done", userId |-> u, isLoading |-> FALSE,
     error |-> NoError, initEvent |-> FALSE, retries |-> 0]

IsMounted(i) == hook[i].mounted

\* the instance of the page on display
Cur == CHOOSE i \in Instances : hook[i].mounted

\* setState on an unmounted component is ignored by React
SetIfMounted(h, new) == IF h.mounted THEN new ELSE h

\* await supabase.auth.getSession() returns in checkAuth
SessionFound(s) == s # NoUser

GetSessionReturn(i) ==
    /\ hook[i].pc = "getSession"
    /\ IF SessionFound(session)
         THEN /\ hook' = [hook EXCEPT ![i] =
                    IF @.mounted
                      THEN [@ EXCEPT !.userId = session, !.isLoading = FALSE,
                                     !.pc = "done"]
                      ELSE [@ EXCEPT !.pc = "done"]]
              /\ UNCHANGED signInCalls
         ELSE /\ hook' = [hook EXCEPT ![i].pc = "signIn"]
              /\ signInCalls' = signInCalls + 1
    /\ UNCHANGED << session, nextUid, signInOks >>
    /\ UNCHANGED notOwner

\* await supabase.auth.signInAnonymously() returns a user: the client stores
\* the session and notifies the onAuthStateChange subscribers (SIGNED_IN)
SignInSucceeds(i) ==
    /\ hook[i].pc = "signIn"
    /\ session' = nextUid
    /\ nextUid' = nextUid + 1
    /\ signInOks' = signInOks + 1
    /\ hook' = [j \in Instances |->
                  IF ~hook[j].mounted
                    THEN IF j = i THEN [hook[j] EXCEPT !.pc = "done"] ELSE hook[j]
                    ELSE IF j = i
                      THEN [hook[j] EXCEPT !.userId = nextUid,
                                           !.isLoading = FALSE, !.pc = "done"]
                      ELSE [hook[j] EXCEPT !.userId = nextUid]]
    /\ UNCHANGED signInCalls
    /\ UNCHANGED notOwner

\* await supabase.auth.signInAnonymously() returns an error
SignInFails(i) ==
    /\ hook[i].pc = "signIn"
    /\ hook' = [hook EXCEPT ![i] =
          IF @.mounted
            THEN [@ EXCEPT !.error = "sign-in failed", !.isLoading = FALSE,
                           !.pc = "done"]
            ELSE [@ EXCEPT !.pc = "done"]]
    /\ UNCHANGED << session, nextUid, signInCalls, signInOks >>
    /\ UNCHANGED notOwner

\* the INITIAL_SESSION event the auth client sends to a new subscriber
InitialSessionEvent(i) ==
    /\ hook[i].initEvent
    /\ hook[i].mounted
    /\ hook' = [hook EXCEPT ![i].userId = session, ![i].initEvent = FALSE]
    /\ UNCHANGED << session, nextUid, signInCalls, signInOks >>
    /\ UNCHANGED notOwner

\* an auth event without a session (SIGNED_OUT, sent when the refresh token
\* is refused): every subscribed hook runs setUserId(null)
SignedOutEvent ==
    /\ session # NoUser
    /\ session' = NoUser
    /\ hook' = [j \in Instances |->
                  IF hook[j].mounted THEN [hook[j] EXCEPT !.userId = NoUser]
                  ELSE hook[j]]
    /\ UNCHANGED << nextUid, signInCalls, signInOks >>
    /\ UNCHANGED notOwner

\* retry: clears the error and calls getSession again
Retry(i) ==
    /\ hook[i].mounted
    /\ hook[i].error # NoError
    /\ hook' = [hook EXCEPT ![i].error = NoError, ![i].isLoading = TRUE,
                            ![i].retries = @ + 1]
    /\ UNCHANGED << session, nextUid, signInCalls, signInOks >>
    /\ UNCHANGED notOwner

\* .finally(() => setIsLoading(false)) of retry
RetryReturn(i) ==
    /\ hook[i].retries > 0
    /\ hook' = [hook EXCEPT ![i] =
          IF @.mounted
            THEN [@ EXCEPT !.isLoading = FALSE, !.retries = @ - 1]
            ELSE [@ EXCEPT !.retries = @ - 1]]
    /\ UNCHANGED << session, nextUid, signInCalls, signInOks >>
    /\ UNCHANGED notOwner

\* a navigation: the effect's cleanup of the page left (mounted = false,
\* unsubscribe) and the effect of the page entered
NavigateHook(i) ==
    /\ i \in Instances
    /\ i + 1 \in Instances
    /\ hook[i].mounted
    /\ hook' = [hook EXCEPT
                  ![i] = [@ EXCEPT !.mounted = FALSE, !.initEvent = FALSE],
                  ![i + 1] = MountedHook]
    /\ UNCHANGED << session, nextUid, signInCalls, signInOks >>

(***************************************************************************)
(* The QueryClient of App.jsx (new QueryClient(), all defaults).  Of each  *)
(* query key it matters here whether the key is cached and whether the     *)
(* cached entry has been invalidated since it was fetched.  The keys are   *)
(* "posts" (every ["posts", ...] list), "post" (["post", id]) and          *)
(* "comments" (["comments", id]) of the one post under study.              *)
(***************************************************************************)
CacheKeys == {"posts", "post", "comments"}

NoCache == [k \in CacheKeys |-> "none"]

\* queryClient.invalidateQueries({ queryKey }) for each of the keys: the
\* cached entries under them are marked; a key not cached has no entry
Invalidate(c, keys) ==
    [k \in CacheKeys |->
        IF k \in keys /\ c[k] # "none" THEN "invalidated" ELSE c[k]]

\* a fetch of the key has succeeded: its entry holds the backend's answer
Fetched(c, key) == [c EXCEPT ![key] = "fresh"]

\* onSuccess of createPostMutation / updatePostMutation: the keys invalidated
\* (no query has the key ["posts-count"])
WriteInvalidates(op) ==
    IF op = "insert" THEN {"posts"} ELSE {"post", "posts"}

(***************************************************************************)
(* CreatePost and EditPost.                                                *)
(***************************************************************************)
\* handleSubmit: the postData handed to mutate
PostData ==
    [title |-> Trim(title),
     content |-> Trim(content),
     image_url |-> OrElse(Trim(imageUrl), Undefined),
     link_url |-> OrElse(Trim(linkUrl), Undefined),
     flags |-> selectedFlags]

\* mutationFn: the object handed to createPostSchema.safeParse
SchemaInput(postData) ==
    [title |-> postData.title,
     content |-> postData.content,
     image_url |-> OrElse(postData.image_url, Null),
     link_url |-> OrElse(postData.link_url, Null),
     flags |-> postData.flags]

\* the early throw left out
SendsWriteAlways(validationResult) == TRUE

\* mutationFn: the request is built and sent only past the validation
SendsWrite(validationResult) == validationResult.success

\* mutationFn of createPostMutation / updatePostMutation up to its await:
\* either it throws the validation error or it sends the request
MutationFn(page, postData, userId) ==
    LET validationResult == createPostSchema(SchemaInput(postData))
    IN  IF ~SendsWrite(validationResult)
          THEN [outcome |-> "throw",
                error |-> JSONstringify(ErrorMap(validationResult.issues, NoErrors)),
                issues |-> validationResult.issues]
          ELSE [outcome |-> "request",
                request |-> [op |-> IF page = "create" THEN "insert" ELSE "update",
                             data |-> validationResult.data,
                             user_id |-> IF page = "create" THEN userId ELSE NoUser],
                issues |-> validationResult.issues]

\* setErrors left out of onError
OnErrorErrorsDropped(page, msg) == NoErrors

\* onError: the errors state it sets
OnErrorErrors(page, msg) ==
    IF JSONparse(msg).ok THEN JSONparse(msg).value
    ELSE IF page = "create"
      THEN Put(NoErrors, "general", "Failed to create post")
      ELSE Put(NoErrors, "general", msg.text)

IdleMutation == [status |-> "idle", error |-> NoMessage]

\* the red banner above the form is rendered:
\* errors.general || createPostMutation.error, and on the edit page
\* errors.general || updatePostMutation.error || deletePostMutation.error
GeneralBannerShown ==
    \/ "general" \in DOMAIN errors
    \/ postMutation.status = "error"
    \/ route = "edit" /\ deleteMutation = "error"

\* a message is rendered under a field of the form (errors.title, ...)
FieldErrorShown ==
    DOMAIN errors \cap {"title", "content", "image_url", "link_url"} # {}

\* the text fields of a schema input, as lastSubmit records them
Fields(input) ==
    [title |-> input.title, content |-> input.content,
     image_url |-> input.image_url, link_url |-> input.link_url]

\* no run of the mutationFn is on record
NoSubmit ==
    [ran |-> FALSE,
     input |-> [title |-> EmptyStr, content |-> EmptyStr, image_url |-> Null,
                link_url |-> Null],
     issues |-> << >>,
     sentBefore |-> 0]

\* a submit button that is never disabled
SubmitDisabledNever(submitting) == FALSE

\* the submit button: disabled={isSubmitting}
SubmitDisabled(submitting) == submitting

handleSubmit ==
    /\ route \in {"create", "edit"}
    /\ ~SubmitDisabled(isSubmitting)
    /\ writesSent < MaxWrites
    /\ IF route = "create" /\ hook[Cur].isLoading
         THEN /\ errors' = Put(NoErrors, "general",
                               "Please wait for authentication to complete")
              /\ lastSubmit' = NoSubmit
              /\ UNCHANGED << isSubmitting, postMutation, writeReqs, writesSent >>
       ELSE IF route = "create" /\ hook[Cur].error # NoError
         THEN /\ errors' = Put(NoErrors, "general", hook[Cur].error)
              /\ lastSubmit' = NoSubmit
              /\ UNCHANGED << isSubmitting, postMutation, writeReqs, writesSent >>
       ELSE LET r == MutationFn(route, PostData, hook[Cur].userId)
            IN  /\ lastSubmit' = [ran |-> TRUE,
                                  input |-> Fields(SchemaInput(PostData)),
                                  issues |-> r.issues,
                                  sentBefore |-> writesSent]
                /\ IF r.outcome = "throw"
                     THEN /\ postMutation' = [status |-> "error", error |-> r.error]
                          /\ isSubmitting' = FALSE
                          /\ errors' = OnErrorErrors(route, r.error)
                          /\ UNCHANGED << writeReqs, writesSent >>
                     ELSE /\ postMutation' = [status |-> "pending",
                                              error |-> NoMessage]
                          /\ isSubmitting' = TRUE
                          /\ errors' = NoErrors
                          /\ writeReqs' = Append(writeReqs, r.request)
                          /\ writesSent' = writesSent + 1
    /\ UNCHANGED << title, content, imageUrl, linkUrl, selectedFlags,
                    successMessage, redirectTimer, route >>
    /\ UNCHANGED << ownerVars, notForm >>

\* the insert/update returns without error: onSuccess
WriteSucceeds ==
    /\ writeReqs # << >>
    /\ writeReqs' = Tail(writeReqs)
    /\ postMutation' = [status |-> "success", error |-> NoMessage]
    /\ successMessage' = "Redirecting..."
    /\ redirectTimer' = TRUE
    /\ cache' = Invalidate(cache, WriteInvalidates(Head(writeReqs).op))
    /\ UNCHANGED << title, content, imageUrl, linkUrl, selectedFlags,
                    isSubmitting, errors, writesSent, lastSubmit, route >>
    /\ UNCHANGED << ownerVars, postVars, feedVars, tagVars, widgetVars >>

\* the insert/update returns an error: the mutationFn throws it, onError
WriteFails ==
    /\ writeReqs # << >>
    /\ \E msg \in RemoteMessages :
         /\ postMutation' = [status |-> "error", error |-> msg]
         /\ errors' = OnErrorErrors(route, msg)
    /\ writeReqs' = Tail(writeReqs)
    /\ isSubmitting' = FALSE
    /\ UNCHANGED << title, content, imageUrl, linkUrl, selectedFlags,
                    successMessage, writesSent, redirectTimer, lastSubmit,
                    route >>
    /\ UNCHANGED << ownerVars, notForm >>

\* setTimeout(() => navigate(...), 1500) fires: the form page is left
RedirectFires ==
    /\ redirectTimer
    /\ redirectTimer' = FALSE
    /\ route' = IF route = "create" THEN "feed" ELSE "post"
    /\ NavigateHook(Cur)
    /\ UNCHANGED << title, content, imageUrl, linkUrl, selectedFlags,
                    isSubmitting, errors, successMessage, postMutation,
                    writeReqs, writesSent, lastSubmit >>
    /\ UNCHANGED notForm

(***************************************************************************)
(* PostPage: the ["post", id] query and the upvote button.                 *)
(***************************************************************************)
MaxClicks == 2
MaxUpvotes == 3

\* retry: 1 of the post query
PostRetry == 1

\* data of a query that has fetched nothing yet (undefined)
NoData == -1

NoReply == [ok |-> FALSE, upvotes |-> 0]

NoReqs == [sent |-> 0, applied |-> 0, refused |-> 0]

\* the query as useQuery creates it when the page mounts: the fetch is sent
PostQueryMounted ==
    [status |-> "pending", data |-> NoData, fetch |-> "sent", reply |-> NoReply,
     failures |-> 0]

\* the backend answers the select of the post, or the request fails
PostServerReplies ==
    /\ route = "post"
    /\ postQuery.fetch = "sent"
    /\ \E ok \in BOOLEAN :
         postQuery' = [postQuery EXCEPT
                         !.fetch = "replied",
                         !.reply = [ok |-> ok, upvotes |-> dbUpvotes]]
    /\ UNCHANGED << dbUpvotes, upvoteMutation, upvoteReqs, upvoteError,
                    upvoteClicks, rpcCalls, ownApplied, rpcFailed, lastFetched >>
    /\ UNCHANGED << ownerVars, notPost >>

\* queryFn returns data
PostFetchSucceeds ==
    /\ postQuery.fetch = "replied"
    /\ postQuery.reply.ok
    /\ postQuery' = [postQuery EXCEPT
                       !.status = "success", !.data = postQuery.reply.upvotes,
                       !.fetch = "idle", !.failures = 0]
    /\ lastFetched' = postQuery.reply.upvotes
    /\ cache' = Fetched(cache, "post")
    /\ UNCHANGED << dbUpvotes, upvoteMutation, upvoteReqs, upvoteError,
                    upvoteClicks, rpcCalls, ownApplied, rpcFailed >>
    /\ UNCHANGED << ownerVars, route, formVars, feedVars, tagVars,
                    widgetVars >>

\* queryFn throws: the query is fetched again while failures < retry
PostFetchFails ==
    /\ postQuery.fetch = "replied"
    /\ ~postQuery.reply.ok
    /\ postQuery' = IF postQuery.failures < PostRetry
                      THEN [postQuery EXCEPT !.fetch = "sent",
                                             !.failures = @ + 1]
                      ELSE [postQuery EXCEPT !.status = "error",
                                             !.fetch = "idle"]
    /\ UNCHANGED << dbUpvotes, upvoteMutation, upvoteReqs, upvoteError,
                    upvoteClicks, rpcCalls, ownApplied, rpcFailed, lastFetched >>
    /\ UNCHANGED << ownerVars, notPost >>

\* the render reaches the post (not postLoading, no postError, post defined)
PostShown ==
    /\ ~(postQuery.status = "pending" /\ postQuery.fetch # "idle")
    /\ postQuery.status # "error"
    /\ postQuery.data # NoData

\* disabled={upvoteMutation.isPending || !userId}
UpvoteDisabled(isPending, userId) == isPending \/ userId = NoUser

\* the negation of !post left out
HandleUpvoteReturnsOnPost(isPending, hasPost) == isPending \/ hasPost

\* handleUpvote: if (upvoteMutation.isPending || !post) return;
HandleUpvoteReturns(isPending, hasPost) == isPending \/ ~hasPost

\* the test of userId left out
UpvoteMutationFnUnguarded(hasPost, userId) ==
    IF ~hasPost THEN "return" ELSE "rpc"

\* mutationFn of upvoteMutation up to its await
UpvoteMutationFn(hasPost, userId) ==
    IF ~hasPost THEN "return"
    ELSE IF userId = NoUser THEN "throw"
    ELSE "rpc"

\* an optimistic update of the cached post added to the invalidation
InvalidatePostOptimistic(q) ==
    [q EXCEPT !.fetch = "sent", !.failures = 0,
              !.data = IF @ = NoData THEN @ ELSE @ + 1]

\* queryClient.invalidateQueries({ queryKey: ["post", id] }): the displayed
\* query is fetched again, a fetch in flight is cancelled; its data stays
InvalidatePost(q) == [q EXCEPT !.fetch = "sent", !.failures = 0]

\* handleUpvote runs, and upvoteMutation's mutationFn up to its await
handleUpvoteRuns ==
    /\ route = "post"
    /\ PostShown
    /\ upvoteClicks < MaxClicks
    /\ upvoteClicks' = upvoteClicks + 1
    /\ IF HandleUpvoteReturns(upvoteMutation = "pending", postQuery.data # NoData)
         THEN UNCHANGED << postQuery, upvoteMutation, upvoteReqs, upvoteError,
                           rpcCalls >>
         ELSE LET r == UpvoteMutationFn(postQuery.data # NoData, hook[Cur].userId)
              IN  /\ upvoteMutation' =
                       CASE r = "rpc" -> "pending"
                         [] r = "throw" -> "error"
                         [] r = "return" -> "success"
                  /\ upvoteError' =
                       CASE r = "rpc" -> upvoteError
                         [] r = "throw" -> "Not authenticated yet"
                         [] r = "return" -> NoError
                  /\ upvoteReqs' = IF r = "rpc"
                                     THEN [upvoteReqs EXCEPT !.sent = @ + 1]
                                     ELSE upvoteReqs
                  /\ rpcCalls' = IF r = "rpc" THEN rpcCalls + 1 ELSE rpcCalls
                  /\ postQuery' = IF r = "return" THEN InvalidatePost(postQuery)
                                  ELSE postQuery
    /\ UNCHANGED << dbUpvotes, ownApplied, rpcFailed, lastFetched >>
    /\ UNCHANGED << ownerVars, notPost >>

\* a click on the upvote button
handleUpvote ==
    /\ ~UpvoteDisabled(upvoteMutation = "pending", hook[Cur].userId)
    /\ handleUpvoteRuns

\* the backend runs increment_upvotes
UpvoteServerApplies ==
    /\ upvoteReqs.sent > 0
    /\ dbUpvotes < MaxUpvotes
    /\ dbUpvotes' = dbUpvotes + 1
    /\ ownApplied' = ownApplied + 1
    /\ upvoteReqs' = [upvoteReqs EXCEPT !.sent = @ - 1, !.applied = @ + 1]
    /\ UNCHANGED << postQuery, upvoteMutation, upvoteError, upvoteClicks,
                    rpcCalls, rpcFailed, lastFetched >>
    /\ UNCHANGED << ownerVars, notPost >>

\* the call fails (network or platform error)
UpvoteServerRefuses ==
    /\ upvoteReqs.sent > 0
    /\ rpcFailed' = rpcFailed + 1
    /\ upvoteReqs' = [upvoteReqs EXCEPT !.sent = @ - 1, !.refused = @ + 1]
    /\ UNCHANGED << dbUpvotes, postQuery, upvoteMutation, upvoteError,
                    upvoteClicks, rpcCalls, ownApplied, lastFetched >>
    /\ UNCHANGED << ownerVars, notPost >>

\* onSuccess of upvoteMutation
UpvoteSucceeds ==
    /\ upvoteReqs.applied > 0
    /\ upvoteReqs' = [upvoteReqs EXCEPT !.applied = @ - 1]
    /\ upvoteMutation' = "success"
    /\ upvoteError' = NoError
    /\ postQuery' = InvalidatePost(postQuery)
    /\ cache' = Invalidate(cache, {"post", "posts"})
    /\ UNCHANGED << dbUpvotes, upvoteClicks, rpcCalls, ownApplied, rpcFailed,
                    lastFetched >>
    /\ UNCHANGED << ownerVars, route, formVars, feedVars, tagVars,
                    widgetVars >>

\* onError of upvoteMutation
UpvoteFails ==
    /\ upvoteReqs.refused > 0
    /\ upvoteReqs' = [upvoteReqs EXCEPT !.refused = @ - 1]
    /\ upvoteMutation' = "error"
    /\ upvoteError' = "Failed to upvote"
    /\ UNCHANGED << dbUpvotes, postQuery, upvoteClicks, rpcCalls, ownApplied,
                    rpcFailed, lastFetched >>
    /\ UNCHANGED << ownerVars, notPost >>

\* another client upvotes the post
OtherClientUpvotes ==
    /\ route = "post"
    /\ dbUpvotes < MaxUpvotes
    /\ dbUpvotes' = dbUpvotes + 1
    /\ UNCHANGED << postQuery, upvoteMutation, upvoteReqs, upvoteError,
                    upvoteClicks, rpcCalls, ownApplied, rpcFailed, lastFetched >>
    /\ UNCHANGED << ownerVars, notPost >>

\* no PostPage is mounted
PostIdle ==
    /\ dbUpvotes = 0
    /\ postQuery = [status |-> "pending", data |-> NoData, fetch |-> "idle",
                    reply |-> NoReply, failures |-> 0]
    /\ upvoteMutation = "idle"
    /\ upvoteReqs = NoReqs
    /\ upvoteError = NoError
    /\ upvoteClicks = 0
    /\ rpcCalls = 0
    /\ ownApplied = 0
    /\ rpcFailed = 0
    /\ lastFetched = NoData

\* the PostPage of a post has just mounted
PostMounted ==
    /\ dbUpvotes \in {0, 1}
    /\ postQuery = PostQueryMounted
    /\ upvoteMutation = "idle"
    /\ upvoteReqs = NoReqs
    /\ upvoteError = NoError
    /\ upvoteClicks = 0
    /\ rpcCalls = 0
    /\ ownApplied = 0
    /\ rpcFailed = 0
    /\ lastFetched = NoData

(***************************************************************************)
(* Feed: search, sort, tag filters and the posts query.                    *)
(*                                                                         *)
(* The texts searched are sequences of characters.  The search term is put *)
(* into the pattern %term% as typed, so a "_" in it is ILIKE's wildcard    *)
(* for one character ("%" and the characters of the filter syntax are not  *)
(* among the terms tried).  A query whose key is left is taken to be       *)
(* garbage collected before the key is displayed again, so every change of *)
(* the key starts a query without data.                                    *)
(***************************************************************************)
MaxPosts == 4

\* the default retry of a query of new QueryClient()
FeedRetry == 3

FILTER_OPTIONS == <<"recipe", "tip", "question", "review", "beginner">>

SortOptions == {"newest", "oldest", "most_upvoted"}

Range(seq) == { seq[i] : i \in DOMAIN seq }

Lower(c) == CASE c = "A" -> "a" [] c = "B" -> "b" [] OTHER -> c

\* text ILIKE '%term%', the term taken as a pattern
ILike(text, term) ==
    \E i \in 0 .. (Len(text) - Len(term)) :
        \A j \in 1 .. Len(term) :
            term[j] = "_" \/ Lower(text[i + j]) = Lower(term[j])

\* queryFn: the request the query builder ends with
FeedRequest(term, sort, filters) ==
    [search |-> [on |-> term # << >>, term |-> term],
     contains |-> [on |-> Len(filters) > 0, flags |-> filters],
     order |-> sort]

\* the rows of the posts table a request selects
Selected(table, request) ==
    { id \in DOMAIN table :
        /\ request.search.on =>
             \/ ILike(table[id].title, request.search.term)
             \/ ILike(table[id].content, request.search.term)
        /\ request.contains.on =>
             Range(request.contains.flags) \subseteq table[id].flags }

\* row a may come before row b under the order of the request
MayPrecede(table, order, a, b) ==
    CASE order = "newest" -> table[a].created_at >= table[b].created_at
      [] order = "oldest" -> table[a].created_at <= table[b].created_at
      [] order = "most_upvoted" -> table[a].upvotes >= table[b].upvotes

\* the answers of the backend to a request: the selected rows, in an order
\* the order clause allows
Answers(table, request) ==
    LET rows == Selected(table, request)
        n == Cardinality(rows)
    IN  { r \in [1 .. n -> rows] :
            /\ \A i, j \in 1 .. n : i # j => r[i] # r[j]
            /\ \A i, j \in 1 .. n :
                 i < j => MayPrecede(table, request.order, r[i], r[j]) }

NoRequest == FeedRequest(<< >>, "newest", << >>)

NoFeedReply == [ok |-> FALSE, rows |-> << >>]

\* the query useQuery creates for a key without cached data: the fetch is sent
FeedQueryFor(term, sort, filters) ==
    [status |-> "pending", data |-> << >>, fetch |-> "sent",
     request |-> FeedRequest(term, sort, filters), reply |-> NoFeedReply,
     failures |-> 0]

\* a render with new searchTerm / sortBy / selectedFilters: the query key
\* changes when one of them does
Rekey(term, sort, filters) ==
    IF << term, sort, filters >> = << searchTerm, sortBy, selectedFilters >>
      THEN feedQuery
      ELSE FeedQueryFor(term, sort, filters)

\* prev.includes(v) ? prev.filter(f => f !== v) : [...prev, v]
Without(list, v) == SelectSeq(list, LAMBDA f : f # v)

\* the includes() test left out: the value is always appended
FeedToggleAppends(prev, filterValue) == Append(prev, filterValue)

FeedToggle(prev, filterValue) ==
    IF filterValue \in Range(prev) THEN Without(prev, filterValue)
    ELSE Append(prev, filterValue)

\* the last two toggles
Toggled(comp, tag, before) ==
    LET all == Append(toggles, [comp |-> comp, tag |-> tag, before |-> before])
    IN  IF Len(all) > 2 THEN Tail(all) ELSE all

\* onChange of the search input
setSearchTerm(t) ==
    /\ route = "feed"
    /\ searchTerm' = t
    /\ feedQuery' = Rekey(t, sortBy, selectedFilters)
    /\ cleared' = FALSE
    /\ UNCHANGED << dbPosts, sortBy, selectedFilters, tagVars >>
    /\ UNCHANGED << ownerVars, notFeed >>

\* onChange of the sort select
setSortBy(o) ==
    /\ route = "feed"
    /\ sortBy' = o
    /\ feedQuery' = Rekey(searchTerm, o, selectedFilters)
    /\ UNCHANGED << dbPosts, searchTerm, selectedFilters, cleared, tagVars >>
    /\ UNCHANGED << ownerVars, notFeed >>

\* a click on a filter chip of the feed
toggleFilter(f) ==
    /\ route = "feed"
    /\ selectedFilters' = FeedToggle(selectedFilters, f)
    /\ feedQuery' = Rekey(searchTerm, sortBy, selectedFilters')
    /\ cleared' = FALSE
    /\ toggles' = Toggled("Feed", f, selectedFilters)
    /\ UNCHANGED << dbPosts, searchTerm, sortBy, chipFilters >>
    /\ UNCHANGED << ownerVars, notFeed >>

\* the posts the feed renders: data: posts = []
FeedPosts == feedQuery.data

FeedIsLoading == feedQuery.status = "pending" /\ feedQuery.fetch # "idle"

FeedError == feedQuery.status = "error"

\* the empty state offers "Clear filters"
ClearShown ==
    /\ ~FeedIsLoading
    /\ ~FeedError
    /\ Len(FeedPosts) = 0
    /\ (searchTerm # << >> \/ Len(selectedFilters) > 0)

\* setSelectedFilters([]) left out
ClearedKeyKeepsFilters == [term |-> << >>, filters |-> selectedFilters]

\* setSearchTerm(""); setSelectedFilters([])
ClearedKey == [term |-> << >>, filters |-> << >>]

\* a click on "Clear filters"
ClearFilters ==
    /\ route = "feed"
    /\ ClearShown
    /\ searchTerm' = ClearedKey.term
    /\ selectedFilters' = ClearedKey.filters
    /\ feedQuery' = Rekey(searchTerm', sortBy, selectedFilters')
    /\ cleared' = TRUE
    /\ toggles' = << >>
    /\ UNCHANGED << dbPosts, sortBy, chipFilters >>
    /\ UNCHANGED << ownerVars, notFeed >>

\* the backend answers the select, or the request fails
FeedServerReplies ==
    /\ route = "feed"
    /\ feedQuery.fetch = "sent"
    /\ \/ \E rows \in Answers(dbPosts, feedQuery.request) :
            feedQuery' = [feedQuery EXCEPT
                            !.fetch = "replied",
                            !.reply = [ok |-> TRUE, rows |-> rows]]
       \/ feedQuery' = [feedQuery EXCEPT !.fetch = "replied",
                                         !.reply = NoFeedReply]
    /\ UNCHANGED << dbPosts, searchTerm, sortBy, selectedFilters, cleared,
                    tagVars >>
    /\ UNCHANGED << ownerVars, notFeed >>

\* queryFn returns data
FeedFetchSucceeds ==
    /\ feedQuery.fetch = "replied"
    /\ feedQuery.reply.ok
    /\ feedQuery' = [feedQuery EXCEPT
                       !.status = "success", !.data = feedQuery.reply.rows,
                       !.fetch = "idle", !.failures = 0]
    /\ cache' = Fetched(cache, "posts")
    /\ UNCHANGED << dbPosts, searchTerm, sortBy, selectedFilters, cleared,
                    tagVars >>
    /\ UNCHANGED << ownerVars, route, formVars, postVars, widgetVars >>

\* queryFn throws: the query is fetched again while failures < retry
FeedFetchFails ==
    /\ feedQuery.fetch = "replied"
    /\ ~feedQuery.reply.ok
    /\ feedQuery' = IF feedQuery.failures < FeedRetry
                      THEN [feedQuery EXCEPT !.fetch = "sent",
                                             !.failures = @ + 1]
                      ELSE [feedQuery EXCEPT !.status = "error",
                                             !.fetch = "idle"]
    /\ UNCHANGED << dbPosts, searchTerm, sortBy, selectedFilters, cleared,
                    tagVars >>
    /\ UNCHANGED << ownerVars, notFeed >>

\* another client inserts a post; this client holds no subscription to the
\* posts table, so nothing but the table changes
OtherClientInserts ==
    /\ route = "feed"
    /\ Len(dbPosts) < MaxPosts
    /\ dbPosts' = Append(dbPosts,
                         [title |-> << "a" >>, content |-> << >>,
                          flags |-> {"recipe", "question"},
                          created_at |-> Len(dbPosts) + 1, upvotes |-> 0,
                          user_id |-> 2])
    /\ UNCHANGED << searchTerm, sortBy, selectedFilters, feedQuery, cleared,
                    tagVars >>
    /\ UNCHANGED << ownerVars, notFeed >>

\* a posts table
Post(t, c, flags, at, up, owner) ==
    [title |-> t, content |-> c, flags |-> flags, created_at |-> at,
     upvotes |-> up, user_id |-> owner]

SamplePosts ==
    << Post(<< "A", "b" >>, << >>, {"recipe"}, 1, 2, 1),
       Post(<< "c" >>, << "a" >>, {"recipe", "tip"}, 2, 0, 2),
       Post(<< "c", "c" >>, << >>, {}, 3, 2, 1) >>

\* no Feed is mounted
FeedIdle ==
    /\ dbPosts = SamplePosts
    /\ searchTerm = << >>
    /\ sortBy = "newest"
    /\ selectedFilters = << >>
    /\ feedQuery = [FeedQueryFor(<< >>, "newest", << >>) EXCEPT !.fetch = "idle"]
    /\ cleared = FALSE

\* the Feed has just mounted
FeedMounted ==
    /\ dbPosts = SamplePosts
    /\ searchTerm = << >>
    /\ sortBy = "newest"
    /\ selectedFilters = << >>
    /\ feedQuery = FeedQueryFor(<< >>, "newest", << >>)
    /\ cleared = FALSE

(***************************************************************************)
(* FilterChips and FlagSelector.                                           *)
(***************************************************************************)
ChipsToggle(selected, flagValue) ==
    IF flagValue \in Range(selected) THEN Without(selected, flagValue)
    ELSE Append(selected, flagValue)

\* a click on a chip of FilterChips; the parent keeps what onFiltersChange
\* hands it
chipsToggleFilter(f) ==
    /\ route = "chips"
    /\ chipFilters' = ChipsToggle(chipFilters, f)
    /\ toggles' = Toggled("FilterChips", f, chipFilters)
    /\ UNCHANGED << ownerVars, route, formVars, postVars, feedVars, sideVars >>

\* "Clear all" of FilterChips, shown while a filter is selected
clearAllFilters ==
    /\ route = "chips"
    /\ Len(chipFilters) > 0
    /\ chipFilters' = << >>
    /\ toggles' = << >>
    /\ UNCHANGED << ownerVars, route, formVars, postVars, feedVars, sideVars >>

FlagToggle(selected, flagValue, disabled) ==
    IF disabled THEN selected
    ELSE IF flagValue \in Range(selected) THEN Without(selected, flagValue)
    ELSE Append(selected, flagValue)

\* a click on a flag of the form's FlagSelector (disabled={isSubmitting})
toggleFlag(f) ==
    /\ route \in {"create", "edit"}
    /\ ~isSubmitting
    /\ selectedFlags' = FlagToggle(selectedFlags, f, isSubmitting)
    /\ toggles' = Toggled("FlagSelector", f, selectedFlags)
    /\ UNCHANGED << title, content, imageUrl, linkUrl, isSubmitting, errors,
                    successMessage, postMutation, writeReqs, writesSent,
                    redirectTimer, lastSubmit >>
    /\ UNCHANGED << ownerVars, route, postVars, feedVars, chipFilters,
                    sideVars >>

TagsIdle ==
    /\ chipFilters = << >>
    /\ toggles = << >>

(***************************************************************************)
(* useTheme.                                                               *)
(***************************************************************************)
MaxToggles == 4
MaxLoads == 3

Themes == {"light", "dark"}

\* localStorage.getItem returns null
NoTheme == "none"

\* the stored value left out: the system preference always decides
InitialThemeFromSystem(saved, dark) == IF dark THEN "dark" ELSE "light"

\* the effect: the saved theme if there is one, else the system preference
InitialTheme(saved, dark) ==
    IF saved # NoTheme THEN saved
    ELSE IF dark THEN "dark" ELSE "light"

\* theme === "light" ? "dark" : "light"
NewTheme(t) == IF t = "light" THEN "dark" ELSE "light"

\* the effect of useTheme, once after the first render
ThemeEffect ==
    /\ ~themeReady
    /\ theme' = InitialTheme(storedTheme, prefersDark)
    /\ darkClass' = (theme' = "dark")
    /\ themeReady' = TRUE
    /\ UNCHANGED << storedTheme, prefersDark, themeToggles, pageLoads >>
    /\ UNCHANGED << ownerVars, route, formVars, postVars, feedVars, tagVars,
                    uploadVars, ownVars, commentVars,
                    previewVars, cache >>

toggleTheme ==
    /\ themeReady
    /\ themeToggles < MaxToggles
    /\ theme' = NewTheme(theme)
    /\ storedTheme' = theme'
    /\ darkClass' = (theme' = "dark")
    /\ themeToggles' = themeToggles + 1
    /\ UNCHANGED << prefersDark, themeReady, pageLoads >>
    /\ UNCHANGED << ownerVars, route, formVars, postVars, feedVars, tagVars,
                    uploadVars, ownVars, commentVars,
                    previewVars, cache >>

\* the page is loaded again (a later session): a new document, useState's
\* initial value, localStorage kept; the system preference may have changed
PageLoad ==
    /\ pageLoads < MaxLoads
    /\ pageLoads' = pageLoads + 1
    /\ theme' = "light"
    /\ darkClass' = FALSE
    /\ themeReady' = FALSE
    /\ themeToggles' = 0
    /\ prefersDark' \in BOOLEAN
    /\ UNCHANGED storedTheme
    /\ UNCHANGED << ownerVars, route, formVars, postVars, feedVars, tagVars,
                    uploadVars, ownVars, commentVars,
                    previewVars, cache >>

\* useTheme is not looked at: a first load with nothing stored
ThemeIdle ==
    /\ storedTheme = NoTheme
    /\ prefersDark = FALSE
    /\ theme = "light"
    /\ darkClass = FALSE
    /\ themeReady = FALSE
    /\ themeToggles = 0
    /\ pageLoads = 0

\* the first render of a page load
ThemeMounted ==
    /\ storedTheme \in Themes \cup {NoTheme}
    /\ prefersDark \in BOOLEAN
    /\ theme = "light"
    /\ darkClass = FALSE
    /\ themeReady = FALSE
    /\ themeToggles = 0
    /\ pageLoads = 0

(***************************************************************************)
(* ImageUpload, as CreatePost renders it: onImageUploaded={setImageUrl},   *)
(* onError={(error) => setErrors({ ...errors, image_upload: error })},     *)
(* disabled={isSubmitting}.  A file is its type (image/... or not) and its *)
(* size in bytes.                                                          *)
(***************************************************************************)
MaxUploads == 2
MaxFiles == 3
MaxDeletes == 2

\* 5 * 1024 * 1024
UploadLimit == 5 * 1024 * 1024

ProgressStep == 10

\* the interval stopping one step late
ProgressCapLate == 10 * 10

ProgressCap == 90
ProgressDone == 100

File(image, size) == [image |-> image, size |-> size]

\* the type check left out
FileErrorBySizeOnly(file) ==
    IF file.size > UploadLimit THEN "Image size must be less than 5MB"
    ELSE NoError

\* handleFileUpload: the message of the validation, NoError for a file it
\* goes on to upload
FileError(file) ==
    IF ~file.image THEN "Please select an image file"
    ELSE IF file.size > UploadLimit THEN "Image size must be less than 5MB"
    ELSE NoError

\* the catch block without its onError
OutcomeCallbacksSilent(ok) == [uploaded |-> ok, failed |-> FALSE]

\* try / catch of handleFileUpload: the callback the outcome leads to
OutcomeCallbacks(ok) == [uploaded |-> ok, failed |-> ~ok]

NoUpload == [phase |-> "none", errors |-> NoErrors]

PublicUrl == Str(0, 12, 0, TRUE)

\* the tests of isUploading left out
UploadEnabledWhileUploading == ~isSubmitting

\* the drop zone and the file input take a file
UploadEnabled == ~isSubmitting /\ ~isUploading

\* handleFileSelect / handleDrop hand a file to handleFileUpload
handleFileUpload(file) ==
    /\ route = "create"
    /\ UploadEnabled
    /\ uploadsStarted < MaxUploads
    /\ lastFile.calls < MaxFiles
    /\ lastFile' = [calls |-> lastFile.calls + 1, file |-> file]
    /\ IF FileError(file) # NoError
         THEN /\ errors' = Put(errors, "image_upload", FileError(file))
              /\ UNCHANGED << isUploading, uploadProgress, uploadReq,
                              progressInterval, uploadsStarted >>
         ELSE /\ isUploading' = TRUE
              /\ uploadProgress' = 0
              /\ progressInterval' = TRUE
              /\ uploadReq' = [phase |-> "sent", errors |-> errors]
              /\ uploadsStarted' = uploadsStarted + 1
              /\ UNCHANGED errors
    /\ UNCHANGED << resetTimer, storageOk, storageFailed, uploadedCalls,
                    uploadErrorCalls >>
    /\ UNCHANGED << title, content, imageUrl, linkUrl, selectedFlags,
                    isSubmitting, successMessage, postMutation, writeReqs,
                    writesSent, redirectTimer, lastSubmit >>
    /\ UNCHANGED << ownerVars, route, postVars, feedVars, tagVars, themeVars,
                    ownVars, commentVars,
                    previewVars, cache >>

\* the interval of the simulated progress fires
ProgressTick ==
    /\ progressInterval
    /\ IF uploadProgress >= ProgressCap
         THEN uploadProgress' = ProgressCap /\ progressInterval' = FALSE
         ELSE uploadProgress' = uploadProgress + ProgressStep
                /\ UNCHANGED progressInterval
    /\ UNCHANGED << isUploading, uploadReq, resetTimer, lastFile,
                    uploadsStarted, storageOk, storageFailed, uploadedCalls,
                    uploadErrorCalls >>
    /\ UNCHANGED << ownerVars, route, formVars, postVars, feedVars, tagVars,
                    themeVars, ownVars, commentVars,
                    previewVars, cache >>

\* the storage answers the upload
UploadServerReplies ==
    /\ uploadReq.phase = "sent"
    /\ \E ok \in BOOLEAN :
         /\ uploadReq' = [uploadReq EXCEPT !.phase = IF ok THEN "ok" ELSE "failed"]
         /\ storageOk' = IF ok THEN storageOk + 1 ELSE storageOk
         /\ storageFailed' = IF ok THEN storageFailed ELSE storageFailed + 1
    /\ UNCHANGED << isUploading, uploadProgress, progressInterval, resetTimer,
                    lastFile, uploadsStarted, uploadedCalls, uploadErrorCalls >>
    /\ UNCHANGED << ownerVars, route, formVars, postVars, feedVars, tagVars,
                    themeVars, ownVars, commentVars,
                    previewVars, cache >>

\* handleFileUpload after its await: the callback, then finally
UploadSettles ==
    /\ uploadReq.phase \in {"ok", "failed"}
    /\ LET call == OutcomeCallbacks(uploadReq.phase = "ok")
       IN  /\ imageUrl' = IF call.uploaded THEN PublicUrl ELSE imageUrl
           /\ errors' = IF call.failed
                          THEN Put(uploadReq.errors, "image_upload",
                                   "Failed to upload image")
                          ELSE errors
           /\ uploadedCalls' = uploadedCalls + (IF call.uploaded THEN 1 ELSE 0)
           /\ uploadErrorCalls' =
                uploadErrorCalls + (IF call.failed THEN 1 ELSE 0)
    /\ uploadProgress' = IF uploadReq.phase = "ok" THEN ProgressDone ELSE 0
    /\ resetTimer' = (resetTimer \/ uploadReq.phase = "ok")
    /\ progressInterval' = FALSE
    /\ isUploading' = FALSE
    /\ uploadReq' = NoUpload
    /\ UNCHANGED << lastFile, uploadsStarted, storageOk, storageFailed >>
    /\ UNCHANGED << title, content, linkUrl, selectedFlags, isSubmitting,
                    successMessage, postMutation, writeReqs, writesSent,
                    redirectTimer, lastSubmit >>
    /\ UNCHANGED << ownerVars, route, postVars, feedVars, tagVars, themeVars,
                    ownVars, commentVars,
                    previewVars, cache >>

\* setTimeout(() => setUploadProgress(0), 1000) fires
ResetTimerFires ==
    /\ resetTimer
    /\ resetTimer' = FALSE
    /\ uploadProgress' = 0
    /\ UNCHANGED << isUploading, uploadReq, progressInterval, lastFile,
                    uploadsStarted, storageOk, storageFailed, uploadedCalls,
                    uploadErrorCalls >>
    /\ UNCHANGED << ownerVars, route, formVars, postVars, feedVars, tagVars,
                    themeVars, ownVars, commentVars,
                    previewVars, cache >>

NoFile == [calls |-> 0, file |-> File(FALSE, 0)]

\* useState initial values of ImageUpload
UploadIdle ==
    /\ isUploading = FALSE
    /\ uploadProgress = 0
    /\ uploadReq = NoUpload
    /\ progressInterval = FALSE
    /\ resetTimer = FALSE
    /\ lastFile = NoFile
    /\ uploadsStarted = 0
    /\ storageOk = 0
    /\ storageFailed = 0
    /\ uploadedCalls = 0
    /\ uploadErrorCalls = 0

(***************************************************************************)
(* The owner controls: the Edit link and the Delete button of PostPage     *)
(* (and the Edit link of a feed card), and the ownership check of          *)
(* EditPost.  The post is the one the ["post", id] query holds; EditPost   *)
(* reads the same query, so it finds the post PostPage has fetched.        *)
(***************************************************************************)
\* the user ids a post can carry: none (CreatePost attaches user_id only
\* when it has one), the first identity of this browser, someone else's
PostOwners == {NoUser, 1, 2}

\* post.user_id === userId
OwnerControlsShown(postUserId, userId) == postUserId = userId

\* EditPost renders the form: the post is there and post.user_id !== userId
\* is false
EditFormShown(hasPost, postUserId, userId) == hasPost /\ postUserId = userId

\* a click on Delete, confirmed: deletePostMutation.mutate()
handleDelete ==
    /\ route = "post"
    /\ PostShown
    /\ OwnerControlsShown(postOwner, hook[Cur].userId)
    /\ deleteMutation # "pending"
    /\ deleteCalls < MaxDeletes
    /\ deleteMutation' = "pending"
    /\ deleteReqs' = deleteReqs + 1
    /\ deleteCalls' = deleteCalls + 1
    /\ deleteFrom' = "post"
    /\ UNCHANGED postOwner
    /\ UNCHANGED << ownerVars, route, formVars, postVars, feedVars, tagVars,
                    themeVars, uploadVars, commentVars,
                    previewVars, cache >>

\* a confirmed click on "Delete Post" of the edit page
\* (disabled={deletePostMutation.isPending})
EditPostHandleDelete ==
    /\ route = "edit"
    /\ EditFormShown(postQuery.data # NoData, postOwner, hook[Cur].userId)
    /\ deleteMutation # "pending"
    /\ deleteCalls < MaxDeletes
    /\ deleteMutation' = "pending"
    /\ deleteReqs' = deleteReqs + 1
    /\ deleteCalls' = deleteCalls + 1
    /\ deleteFrom' = "edit"
    /\ UNCHANGED postOwner
    /\ UNCHANGED << ownerVars, route, formVars, postVars, feedVars, tagVars,
                    themeVars, uploadVars, commentVars, previewVars, cache >>

\* the delete returns an error: the mutation fails (it has no onError)
DeleteFails ==
    /\ deleteReqs > 0
    /\ deleteReqs' = deleteReqs - 1
    /\ deleteMutation' = "error"
    /\ UNCHANGED << postOwner, deleteCalls, deleteFrom >>
    /\ UNCHANGED << ownerVars, route, formVars, postVars, feedVars, tagVars,
                    themeVars, uploadVars, commentVars,
                    previewVars, cache >>

\* onSuccess of deletePostMutation: the keys invalidated
DeleteInvalidates == {"posts"}

\* the delete returns without error: onSuccess invalidates and loads the
\* feed, PostPage by window.location.href = "/" (the document is loaded
\* anew, with an empty QueryClient), EditPost by navigate("/")
DeleteSucceeds ==
    /\ deleteReqs > 0
    /\ deleteReqs' = deleteReqs - 1
    /\ deleteMutation' = "success"
    /\ cache' = IF deleteFrom = "post" THEN NoCache
                ELSE Invalidate(cache, DeleteInvalidates)
    /\ route' = "feed"
    /\ NavigateHook(Cur)
    /\ UNCHANGED << postOwner, deleteCalls, deleteFrom >>
    /\ UNCHANGED << formVars, postVars, feedVars, tagVars, themeVars,
                    uploadVars, commentVars, previewVars >>

\* the edit page of the post is opened, by the Edit link or by its address
OpenEdit ==
    /\ route = "post"
    /\ route' = "edit"
    /\ NavigateHook(Cur)
    /\ UNCHANGED << formVars, postVars, feedVars, tagVars, sideVars >>

\* a submit of the edit form, when EditPost renders it
submitEditForm ==
    /\ route = "edit"
    /\ EditFormShown(postQuery.data # NoData, postOwner, hook[Cur].userId)
    /\ handleSubmit

OwnIdle ==
    /\ postOwner = 1
    /\ deleteMutation = "idle"
    /\ deleteReqs = 0
    /\ deleteCalls = 0
    /\ deleteFrom = "none"

\* a post page has mounted, of a post of any owner
OwnMounted ==
    /\ postOwner \in PostOwners
    /\ deleteMutation = "idle"
    /\ deleteReqs = 0
    /\ deleteCalls = 0
    /\ deleteFrom = "none"

(***************************************************************************)
(* The comment form of PostPage.                                           *)
(***************************************************************************)
MaxComments == 2

\* commentSchema: .min(1) .min(3) .max(500) on content
CommentRequired == 1
CommentMin == 3
CommentMax == 500

\* commentSchema.safeParse({ content }).success
commentSchema(text) ==
    /\ text.kind = "str"
    /\ StrLen(text) >= CommentRequired
    /\ StrLen(text) >= CommentMin
    /\ StrLen(text) <= CommentMax

\* what the user types: nothing, blanks, and texts around the two limits of
\* commentSchema
CommentInputs ==
    { EmptyStr, Str(1, 0, 0, FALSE), Str(0, CommentMin - 1, 0, FALSE),
      Str(0, CommentMin, 0, FALSE), Str(0, CommentMax + 1, 0, FALSE) }

\* the textarea: disabled={isSubmittingComment || !userId}
setNewComment(t) ==
    /\ route = "post"
    /\ PostShown
    /\ ~isSubmittingComment
    /\ hook[Cur].userId # NoUser
    /\ t # newComment
    /\ newComment' = t
    /\ UNCHANGED << isSubmittingComment, commentError, commentReqs,
                    commentCalls, commentSubmits >>
    /\ UNCHANGED << ownerVars, route, formVars, postVars, feedVars, tagVars,
                    themeVars, uploadVars, ownVars,
                    previewVars, cache >>

\* disabled={!newComment.trim() || isSubmittingComment || !userId}
CommentDisabled(text, submitting, userId) ==
    StrLen(Trim(text)) = 0 \/ submitting \/ userId = NoUser

\* handleCommentSubmit: if (!newComment.trim() || isSubmittingComment) return;
CommentSubmitReturns(text, submitting) ==
    StrLen(Trim(text)) = 0 \/ submitting

\* handleCommentSubmit runs, and commentMutation's mutationFn up to its
\* await (onError at once when it throws before it)
handleCommentSubmitRuns ==
    /\ route = "post"
    /\ PostShown
    /\ commentSubmits < MaxComments
    /\ commentSubmits' = commentSubmits + 1
    /\ IF CommentSubmitReturns(newComment, isSubmittingComment)
         THEN UNCHANGED << isSubmittingComment, commentError, commentReqs,
                           commentCalls >>
         ELSE IF hook[Cur].userId = NoUser
           THEN /\ isSubmittingComment' = FALSE
                /\ commentError' = "Not authenticated yet"
                /\ UNCHANGED << commentReqs, commentCalls >>
           ELSE /\ isSubmittingComment' = TRUE
                /\ commentReqs' = [commentReqs EXCEPT !.sent = @ + 1]
                /\ commentCalls' = commentCalls + 1
                /\ UNCHANGED commentError
    /\ UNCHANGED newComment
    /\ UNCHANGED << ownerVars, route, formVars, postVars, feedVars, tagVars,
                    themeVars, uploadVars, ownVars,
                    previewVars, cache >>

\* a click on "Post Comment"
handleCommentSubmit ==
    /\ ~CommentDisabled(newComment, isSubmittingComment, hook[Cur].userId)
    /\ handleCommentSubmitRuns

\* the backend answers the insert of the comment
CommentServerReplies ==
    /\ commentReqs.sent > 0
    /\ \/ commentReqs' = [commentReqs EXCEPT !.sent = @ - 1, !.applied = @ + 1]
       \/ commentReqs' = [commentReqs EXCEPT !.sent = @ - 1, !.refused = @ + 1]
    /\ UNCHANGED << newComment, isSubmittingComment, commentError,
                    commentCalls, commentSubmits >>
    /\ UNCHANGED << ownerVars, route, formVars, postVars, feedVars, tagVars,
                    themeVars, uploadVars, ownVars,
                    previewVars, cache >>

\* onSuccess of commentMutation
CommentSucceeds ==
    /\ commentReqs.applied > 0
    /\ commentReqs' = [commentReqs EXCEPT !.applied = @ - 1]
    /\ newComment' = EmptyStr
    /\ isSubmittingComment' = FALSE
    /\ commentError' = NoError
    /\ cache' = Invalidate(cache, {"comments"})
    /\ UNCHANGED << commentCalls, commentSubmits >>
    /\ UNCHANGED << ownerVars, route, formVars, postVars, feedVars, tagVars,
                    themeVars, uploadVars, ownVars, previewVars >>

\* onError of commentMutation
CommentFails ==
    /\ commentReqs.refused > 0
    /\ commentReqs' = [commentReqs EXCEPT !.refused = @ - 1]
    /\ isSubmittingComment' = FALSE
    /\ commentError' = "Failed to post comment"
    /\ UNCHANGED << newComment, commentCalls, commentSubmits >>
    /\ UNCHANGED << ownerVars, route, formVars, postVars, feedVars, tagVars,
                    themeVars, uploadVars, ownVars,
                    previewVars, cache >>

CommentIdle ==
    /\ newComment = EmptyStr
    /\ isSubmittingComment = FALSE
    /\ commentError = NoError
    /\ commentReqs = NoReqs
    /\ commentCalls = 0
    /\ commentSubmits = 0

(***************************************************************************)
(* LinkPreview, as CreatePost renders it: {linkUrl && <LinkPreview         *)
(* url={linkUrl} />}, so the component is mounted while the field holds a  *)
(* text and gets a new url prop with every change of it.  A url is the     *)
(* hostname new URL(url) finds in it, or BadUrl when new URL(url) throws.  *)
(***************************************************************************)
MaxUrlChanges == 5

NoUrl == "none"
BadUrl == "unparsable"
Hostnames == {"a.example", "b.example"}
NoPreview == "null"

\* the text of the link field that holds the url
LinkText(u) ==
    CASE u = NoUrl -> EmptyStr
      [] u = BadUrl -> Str(0, 3, 0, FALSE)
      [] OTHER -> Str(0, 12, 0, TRUE)

\* a change of the link field: the component is mounted, unmounted, or its
\* effect runs fetchPreview for the new url
UrlChanges(u) ==
    /\ route = "create"
    /\ ~isSubmitting
    /\ u # previewUrl
    /\ urlChanges < MaxUrlChanges
    /\ urlChanges' = urlChanges + 1
    /\ previewUrl' = u
    /\ linkUrl' = LinkText(u)
    /\ IF u = NoUrl
         THEN \* unmounted: the state is gone, the fetches left set nothing
              /\ previewData' = NoPreview
              /\ previewIsLoading' = TRUE
              /\ previewError' = FALSE
              /\ previewTimers' = << >>
         ELSE LET mounts == previewUrl = NoUrl
                  timers == IF mounts THEN << >> ELSE previewTimers
              IN  /\ previewData' = IF mounts THEN NoPreview ELSE previewData
                  /\ IF u = BadUrl
                       THEN /\ previewError' = TRUE
                            /\ previewIsLoading' = FALSE
                            /\ previewTimers' = timers
                       ELSE /\ previewError' = FALSE
                            /\ previewIsLoading' = TRUE
                            /\ previewTimers' = Append(timers, u)
    /\ UNCHANGED << title, content, imageUrl, selectedFlags, isSubmitting,
                    errors, successMessage, postMutation, writeReqs,
                    writesSent, redirectTimer, lastSubmit >>
    /\ UNCHANGED << ownerVars, route, postVars, feedVars, tagVars, themeVars,
                    uploadVars, ownVars, commentVars, cache >>

\* the one-second timer of the oldest simulated fetch fires: the rest of
\* fetchPreview, which sets the data of its own url whatever the url prop
\* has become
PreviewTimerFires ==
    /\ previewTimers # << >>
    /\ previewTimers' = Tail(previewTimers)
    /\ previewData' = Head(previewTimers)
    /\ previewIsLoading' = FALSE
    /\ UNCHANGED << previewUrl, previewError, urlChanges >>
    /\ UNCHANGED << ownerVars, route, formVars, postVars, feedVars, tagVars,
                    themeVars, uploadVars, ownVars, commentVars, cache >>

\* the link field is empty: no LinkPreview
PreviewIdle ==
    /\ previewUrl = NoUrl
    /\ previewData = NoPreview
    /\ previewIsLoading = TRUE
    /\ previewError = FALSE
    /\ previewTimers = << >>
    /\ urlChanges = 0

\* nothing is cached: the document has just been loaded
CacheIdle == cache = NoCache

SideIdle ==
    /\ ThemeIdle
    /\ UploadIdle
    /\ OwnIdle
    /\ CommentIdle
    /\ PreviewIdle
    /\ CacheIdle

(***************************************************************************)
(* The form inputs the validation is checked on.                           *)
(***************************************************************************)
Pads == 0 .. MaxPad

TitleInputs ==
    { Str(l, c, 0, FALSE) :
        l \in Pads,
        c \in {0, 1, TitleMin - 1, TitleMin, TitleMax, TitleMax + 1} }

ContentInputs ==
    { Str(0, c, 0, FALSE) : c \in {0, ContentMax, ContentMax + 1} }
      \cup { Str(0, ContentMax, t, FALSE) : t \in 1 .. MaxPad }

UrlInputs ==
    { EmptyStr, Str(0, 12, 0, FALSE), Str(0, 12, 0, TRUE) }
      \cup { Str(l, 0, 0, FALSE) : l \in 1 .. MaxPad }

FlagInputs == { << >>, << "recipe" >> }

\* the form as the user has filled it in, nothing submitted yet
FormFilled ==
    /\ title \in TitleInputs
    /\ content \in ContentInputs
    /\ imageUrl \in UrlInputs
    /\ linkUrl \in UrlInputs
    /\ selectedFlags \in FlagInputs
    /\ isSubmitting = FALSE
    /\ errors = NoErrors
    /\ successMessage = ""
    /\ postMutation = IdleMutation
    /\ writeReqs = << >>
    /\ writesSent = 0
    /\ redirectTimer = FALSE
    /\ lastSubmit = NoSubmit

\* a page has just mounted useOwner; the browser may hold an earlier session
OwnerMounted ==
    /\ session \in {NoUser, 1}
    /\ nextUid = session + 1
    /\ signInCalls = 0
    /\ signInOks = 0
    /\ hook = [i \in Instances |-> IF i = 1 THEN MountedHook ELSE UnmountedHook]

\* the edit form is rendered once the post of the signed-in owner is loaded
OwnerSettled ==
    /\ session = 1
    /\ nextUid = 2
    /\ signInCalls = 0
    /\ signInOks = 0
    /\ hook = [i \in Instances |-> IF i = 1 THEN SettledHook(1) ELSE UnmountedHook]

\* the router replaces the page: the hook of the page left is cleaned up and
\* the hook of the page entered runs its effect
NavigateTo(page) ==
    /\ page # route
    /\ route' = page
    /\ NavigateHook(Cur)
    /\ UNCHANGED << formVars, postVars, feedVars, tagVars, sideVars >>

FormIdle ==
    /\ title = EmptyStr
    /\ content = EmptyStr
    /\ imageUrl = EmptyStr
    /\ linkUrl = EmptyStr
    /\ selectedFlags = << >>
    /\ isSubmitting = FALSE
    /\ errors = NoErrors
    /\ successMessage = ""
    /\ postMutation = IdleMutation
    /\ writeReqs = << >>
    /\ writesSent = 0
    /\ redirectTimer = FALSE
    /\ lastSubmit = NoSubmit

\* the edit form filled from the loaded post (the effect on [post])
FormPrefilled ==
    /\ title = Str(0, TitleMin, 0, FALSE)
    /\ content = EmptyStr
    /\ imageUrl = Str(0, 12, 0, TRUE)
    /\ linkUrl = Str(0, 12, 0, TRUE)
    /\ selectedFlags \in { << >>, << "tip", "recipe" >> }
    /\ isSubmitting = FALSE
    /\ errors = NoErrors
    /\ successMessage = ""
    /\ postMutation = IdleMutation
    /\ writeReqs = << >>
    /\ writesSent = 0
    /\ redirectTimer = FALSE
    /\ lastSubmit = NoSubmit

(***************************************************************************)
(* SpecValidate: one create or edit form, filled in any way, submitted.    *)
(***************************************************************************)
InitValidate ==
    /\ SideIdle
    /\ FormFilled
    /\ \/ route = "create" /\ OwnerMounted
       \/ route = "edit" /\ OwnerSettled
    /\ PostIdle
    /\ FeedIdle
    /\ TagsIdle

NextValidate ==
    \/ handleSubmit
    \/ WriteSucceeds
    \/ WriteFails
    \/ RedirectFires
    \/ \E i \in Instances : GetSessionReturn(i)
    \/ \E i \in Instances : SignInSucceeds(i)
    \/ \E i \in Instances : SignInFails(i)
    \/ \E i \in Instances : InitialSessionEvent(i)
    \/ \E i \in Instances : Retry(i)
    \/ \E i \in Instances : RetryReturn(i)

SpecValidate == InitValidate /\ [][NextValidate]_vars

(***************************************************************************)
(* SpecOwner: useOwner over the navigations of one browser session.        *)
(***************************************************************************)
Pages == {"feed", "create", "post"}

InitOwner ==
    /\ SideIdle
    /\ route = "feed"
    /\ OwnerMounted
    /\ FormIdle
    /\ PostIdle
    /\ FeedIdle
    /\ TagsIdle

NextOwner ==
    \/ \E page \in Pages : NavigateTo(page)
    \/ \E i \in Instances : GetSessionReturn(i)
    \/ \E i \in Instances : SignInSucceeds(i)
    \/ \E i \in Instances : SignInFails(i)
    \/ \E i \in Instances : InitialSessionEvent(i)
    \/ \E i \in Instances : Retry(i)
    \/ \E i \in Instances : RetryReturn(i)

SpecOwner == InitOwner /\ [][NextOwner]_vars

(***************************************************************************)
(* SpecPost: one PostPage.                                                 *)
(***************************************************************************)
InitPost ==
    /\ SideIdle
    /\ route = "post"
    /\ OwnerMounted
    /\ PostMounted
    /\ FormIdle
    /\ FeedIdle
    /\ TagsIdle

NextPost ==
    \/ PostServerReplies
    \/ PostFetchSucceeds
    \/ PostFetchFails
    \/ handleUpvote
    \/ UpvoteServerApplies
    \/ UpvoteServerRefuses
    \/ UpvoteSucceeds
    \/ UpvoteFails
    \/ OtherClientUpvotes
    \/ \E i \in Instances : GetSessionReturn(i)
    \/ \E i \in Instances : SignInSucceeds(i)
    \/ \E i \in Instances : SignInFails(i)
    \/ \E i \in Instances : InitialSessionEvent(i)
    \/ \E i \in Instances : Retry(i)
    \/ \E i \in Instances : RetryReturn(i)

SpecPost == InitPost /\ [][NextPost]_vars

(***************************************************************************)
(* SpecFeed: one Feed.                                                     *)
(***************************************************************************)
FeedTerms == { << >>, << "a" >>, << "z" >>, << "_" >> }

FeedFlagInputs == {"recipe", "question"}

InitFeed ==
    /\ SideIdle
    /\ route = "feed"
    /\ OwnerMounted
    /\ FeedMounted
    /\ FormIdle
    /\ PostIdle
    /\ TagsIdle

NextFeed ==
    \/ \E t \in FeedTerms : setSearchTerm(t)
    \/ \E o \in SortOptions : setSortBy(o)
    \/ \E f \in FeedFlagInputs : toggleFilter(f)
    \/ ClearFilters
    \/ FeedServerReplies
    \/ FeedFetchSucceeds
    \/ FeedFetchFails
    \/ \E i \in Instances : GetSessionReturn(i)
    \/ \E i \in Instances : SignInSucceeds(i)
    \/ \E i \in Instances : SignInFails(i)
    \/ \E i \in Instances : InitialSessionEvent(i)
    \/ \E i \in Instances : Retry(i)
    \/ \E i \in Instances : RetryReturn(i)

SpecFeed == InitFeed /\ [][NextFeed]_vars

(***************************************************************************)
(* SpecFeedLive: a Feed on display that the user leaves alone, while other *)
(* clients insert posts.  The requests sent are answered and the answers   *)
(* handled (weak fairness); no button is clicked and nothing is typed.     *)
(***************************************************************************)
\* the feed was mounted with some search term, sort order and filters
FeedDisplayed ==
    /\ dbPosts = SamplePosts
    /\ searchTerm \in FeedTerms
    /\ sortBy \in SortOptions
    /\ selectedFilters \in { << >>, << "recipe" >>, << "recipe", "question" >> }
    /\ feedQuery = FeedQueryFor(searchTerm, sortBy, selectedFilters)
    /\ cleared = FALSE

InitFeedLive ==
    /\ SideIdle
    /\ route = "feed"
    /\ OwnerMounted
    /\ FeedDisplayed
    /\ FormIdle
    /\ PostIdle
    /\ TagsIdle

NextFeedLive ==
    \/ FeedServerReplies
    \/ FeedFetchSucceeds
    \/ FeedFetchFails
    \/ OtherClientInserts
    \/ \E i \in Instances : GetSessionReturn(i)
    \/ \E i \in Instances : SignInSucceeds(i)
    \/ \E i \in Instances : SignInFails(i)
    \/ \E i \in Instances : InitialSessionEvent(i)

SpecFeedLive ==
    /\ InitFeedLive
    /\ [][NextFeedLive]_vars
    /\ WF_vars(FeedServerReplies)
    /\ WF_vars(FeedFetchSucceeds)
    /\ WF_vars(FeedFetchFails)

(***************************************************************************)
(* SpecTags: the three tag selectors, each on the page that shows it.      *)
(***************************************************************************)
InitTags ==
    /\ SideIdle
    /\ OwnerSettled
    /\ PostIdle
    /\ TagsIdle
    /\ \/ route = "feed" /\ FeedMounted /\ FormIdle
       \/ route = "chips" /\ FeedIdle /\ FormIdle
       \/ route = "edit" /\ FeedIdle /\ FormPrefilled

NextTags ==
    \/ \E f \in Range(FILTER_OPTIONS) : toggleFilter(f)
    \/ ClearFilters
    \/ FeedServerReplies
    \/ FeedFetchSucceeds
    \/ FeedFetchFails
    \/ \E f \in Range(AVAILABLE_FLAGS) : chipsToggleFilter(f)
    \/ clearAllFilters
    \/ \E f \in Range(AVAILABLE_FLAGS) : toggleFlag(f)
    \/ handleSubmit
    \/ WriteSucceeds
    \/ WriteFails
    \/ RedirectFires

SpecTags == InitTags /\ [][NextTags]_vars

(***************************************************************************)
(* SpecTheme: useTheme over the loads of the page.                         *)
(***************************************************************************)
InitTheme ==
    /\ route = "feed"
    /\ OwnerSettled
    /\ FeedIdle
    /\ FormIdle
    /\ PostIdle
    /\ TagsIdle
    /\ ThemeMounted
    /\ UploadIdle
    /\ OwnIdle
    /\ CommentIdle
    /\ PreviewIdle
    /\ CacheIdle

NextTheme ==
    \/ ThemeEffect
    \/ toggleTheme
    \/ PageLoad

SpecTheme == InitTheme /\ [][NextTheme]_vars

(***************************************************************************)
(* SpecUpload: the ImageUpload of a create form.  The storage answers each *)
(* upload and the answer is handled (weak fairness).                       *)
(***************************************************************************)
FileInputs ==
    { File(image, size) :
        image \in BOOLEAN,
        size \in {0, UploadLimit - 1, UploadLimit, UploadLimit + 1} }

InitUpload ==
    /\ route = "create"
    /\ OwnerSettled
    /\ FormIdle
    /\ PostIdle
    /\ FeedIdle
    /\ TagsIdle
    /\ SideIdle

NextUpload ==
    \/ \E file \in FileInputs : handleFileUpload(file)
    \/ ProgressTick
    \/ UploadServerReplies
    \/ UploadSettles
    \/ ResetTimerFires

SpecUpload ==
    /\ InitUpload
    /\ [][NextUpload]_vars
    /\ WF_vars(UploadServerReplies)
    /\ WF_vars(UploadSettles)

(***************************************************************************)
(* SpecOwnership: a post page of a post of any owner, its Delete button,   *)
(* and the edit page opened from it.                                       *)
(***************************************************************************)
InitOwnership ==
    /\ route = "post"
    /\ OwnerMounted
    /\ PostMounted
    /\ OwnMounted
    /\ FormPrefilled
    /\ FeedIdle
    /\ TagsIdle
    /\ ThemeIdle
    /\ UploadIdle
    /\ CommentIdle
    /\ PreviewIdle
    /\ CacheIdle

NextOwnership ==
    \/ PostServerReplies
    \/ PostFetchSucceeds
    \/ PostFetchFails
    \/ handleDelete
    \/ DeleteFails
    \/ DeleteSucceeds
    \/ OpenEdit
    \/ submitEditForm
    \/ WriteSucceeds
    \/ WriteFails
    \/ RedirectFires
    \/ \E i \in Instances : GetSessionReturn(i)
    \/ \E i \in Instances : SignInSucceeds(i)
    \/ \E i \in Instances : SignInFails(i)
    \/ \E i \in Instances : InitialSessionEvent(i)

SpecOwnership == InitOwnership /\ [][NextOwnership]_vars

(***************************************************************************)
(* SpecEdit: the edit page of the visitor's own post, with its Update and  *)
(* Delete buttons.  The callbacks of the two mutations are options of      *)
(* useMutation, so they run when the answer arrives even if the page has   *)
(* been left by then, and the timer of the redirect is never cleared.      *)
(***************************************************************************)
PostLoaded ==
    /\ dbUpvotes = 0
    /\ postQuery = [status |-> "success", data |-> 0, fetch |-> "idle",
                    reply |-> NoReply, failures |-> 0]
    /\ upvoteMutation = "idle"
    /\ upvoteReqs = NoReqs
    /\ upvoteError = NoError
    /\ upvoteClicks = 0
    /\ rpcCalls = 0
    /\ ownApplied = 0
    /\ rpcFailed = 0
    /\ lastFetched = 0

InitEdit ==
    /\ route = "edit"
    /\ OwnerSettled
    /\ PostLoaded
    /\ FormFilled
    /\ FeedIdle
    /\ TagsIdle
    /\ SideIdle

NextEdit ==
    \/ submitEditForm
    \/ WriteSucceeds
    \/ WriteFails
    \/ RedirectFires
    \/ EditPostHandleDelete
    \/ DeleteFails
    \/ DeleteSucceeds

SpecEdit == InitEdit /\ [][NextEdit]_vars

(***************************************************************************)
(* SpecCache: a client that has some of the queries of one post cached     *)
(* and creates, updates, upvotes, comments on or deletes the post.         *)
(***************************************************************************)
InitCache ==
    /\ route \in {"create", "edit", "post"}
    /\ OwnerSettled
    /\ IF route = "create" THEN PostIdle ELSE PostLoaded
    /\ FormPrefilled
    /\ FeedIdle
    /\ TagsIdle
    /\ ThemeIdle
    /\ UploadIdle
    /\ OwnIdle
    /\ CommentIdle
    /\ PreviewIdle
    /\ cache \in [CacheKeys -> {"none", "fresh"}]
    /\ route = "edit" => cache["post"] = "fresh"
    /\ route = "post" => cache["post"] = "fresh" /\ cache["comments"] = "fresh"

NextCache ==
    \/ handleSubmit
    \/ WriteSucceeds
    \/ WriteFails
    \/ RedirectFires
    \/ PostServerReplies
    \/ PostFetchSucceeds
    \/ PostFetchFails
    \/ handleUpvote
    \/ UpvoteServerApplies
    \/ UpvoteServerRefuses
    \/ UpvoteSucceeds
    \/ UpvoteFails
    \/ setNewComment(Str(0, CommentMin, 0, FALSE))
    \/ handleCommentSubmit
    \/ CommentServerReplies
    \/ CommentSucceeds
    \/ CommentFails
    \/ handleDelete
    \/ EditPostHandleDelete
    \/ DeleteFails
    \/ DeleteSucceeds

SpecCache == InitCache /\ [][NextCache]_vars

(***************************************************************************)
(* SpecPreview: the LinkPreview under the link field of a create form.     *)
(***************************************************************************)
InitPreview ==
    /\ route = "create"
    /\ OwnerSettled
    /\ FormIdle
    /\ PostIdle
    /\ FeedIdle
    /\ TagsIdle
    /\ SideIdle

NextPreview ==
    \/ \E u \in Hostnames \cup {NoUrl, BadUrl} : UrlChanges(u)
    \/ PreviewTimerFires

SpecPreview == InitPreview /\ [][NextPreview]_vars

(***************************************************************************)
(* SpecGuest: a post page whose visitor may have no userId (the sign-in    *)
(* failed, has not returned yet, or the session was lost).  The upvote     *)
(* button and the comment form are disabled without a userId; here         *)
(* handleUpvote and handleCommentSubmit run whether or not the control is  *)
(* enabled, so that the tests of userId inside the two mutations are the   *)
(* only ones at work.                                                      *)
(***************************************************************************)
InitGuest ==
    /\ route = "post"
    /\ OwnerMounted
    /\ PostMounted
    /\ FormIdle
    /\ FeedIdle
    /\ TagsIdle
    /\ SideIdle

NextGuest ==
    \/ PostServerReplies
    \/ PostFetchSucceeds
    \/ PostFetchFails
    \/ handleUpvoteRuns
    \/ UpvoteServerApplies
    \/ UpvoteServerRefuses
    \/ UpvoteSucceeds
    \/ UpvoteFails
    \/ setNewComment(Str(0, CommentMin, 0, FALSE))
    \/ handleCommentSubmitRuns
    \/ CommentServerReplies
    \/ CommentSucceeds
    \/ CommentFails
    \/ \E i \in Instances : GetSessionReturn(i)
    \/ \E i \in Instances : SignInSucceeds(i)
    \/ \E i \in Instances : SignInFails(i)
    \/ \E i \in Instances : InitialSessionEvent(i)
    \/ SignedOutEvent

SpecGuest == InitGuest /\ [][NextGuest]_vars

(***************************************************************************)
(* SpecRequests: the requests the user's actions send, on a create page    *)
(* (submit, image upload) and on a post page (upvote, comment).            *)
(***************************************************************************)
InitRequests ==
    /\ OwnerSettled
    /\ FormPrefilled
    /\ \/ route = "create" /\ PostIdle
       \/ route = "post" /\ PostMounted
    /\ FeedIdle
    /\ TagsIdle
    /\ SideIdle

NextRequests ==
    \/ handleSubmit
    \/ WriteSucceeds
    \/ WriteFails
    \/ RedirectFires
    \/ \E file \in {File(TRUE, 0), File(FALSE, 0)} : handleFileUpload(file)
    \/ UploadServerReplies
    \/ UploadSettles
    \/ PostServerReplies
    \/ PostFetchSucceeds
    \/ PostFetchFails
    \/ handleUpvote
    \/ UpvoteServerApplies
    \/ UpvoteServerRefuses
    \/ UpvoteSucceeds
    \/ UpvoteFails
    \/ \E t \in CommentInputs : setNewComment(t)
    \/ handleCommentSubmit
    \/ CommentServerReplies
    \/ CommentSucceeds
    \/ CommentFails

SpecRequests == InitRequests /\ [][NextRequests]_vars

(***************************************************************************)
(* Properties.                                                             *)
(***************************************************************************)
Paths(issues) == { issues[i].path : i \in DOMAIN issues }

\* the last submit reached the mutationFn and the schema rejected its input
Rejected == lastSubmit.ran /\ lastSubmit.issues # << >>

\* the last submit sent no insert/update
NothingSent == writesSent = lastSubmit.sentBefore /\ writeReqs = << >>

\* C1: when createPostSchema rejects the submitted data of the create or the
\* edit form, no insert/update request is sent, and the errors map has an
\* entry under each failing field (and under nothing else).
C1_RejectedSendsNothing ==
    Rejected =>
        /\ NothingSent
        /\ DOMAIN errors = Paths(lastSubmit.issues)
        /\ DOMAIN errors \subseteq {"title", "content", "image_url", "link_url"}
        /\ ~isSubmitting

C1_Witness ==
    /\ Rejected
    /\ route = "create"
    /\ DOMAIN errors = {"title", "content", "link_url"}

\* C2: on create and on edit, the title is accepted by the validation exactly
\* when its length after trimming is between 3 and 200 inclusive; a request
\* is sent only with such a title.
C2_TitleLength ==
    lastSubmit.ran =>
        /\ ("title" \in Paths(lastSubmit.issues))
              <=> ~(title.core >= 3 /\ title.core <= 200)
        /\ ("title" \in DOMAIN errors)
              <=> ~(title.core >= 3 /\ title.core <= 200)
        /\ writesSent > lastSubmit.sentBefore
              => (title.core >= 3 /\ title.core <= 200)

C2_Witness ==
    /\ lastSubmit.ran
    /\ route = "edit"
    /\ title.lead = 1
    /\ title.core = 200
    /\ "title" \notin DOMAIN errors
    /\ writesSent = 1

\* C3: a submit of the create or the edit form with a valid title (and
\* content) and both URL fields left empty passes the validation and sends
\* exactly one write request.
C3_EmptyUrlsAccepted ==
    ( /\ lastSubmit.ran
      /\ title.core >= 3 /\ title.core <= 200
      /\ content.core <= 2000
      /\ StrLen(imageUrl) = 0
      /\ StrLen(linkUrl) = 0 )
    => /\ lastSubmit.issues = << >>
       /\ writesSent = lastSubmit.sentBefore + 1

\* C4: a non-empty image URL or link URL that is no well-formed URL is
\* rejected on create and on edit: no write is sent and the error is recorded
\* under image_url, respectively link_url.
Malformed(s) == StrLen(s) > 0 /\ ~s.url

C4_MalformedUrlRejected ==
    lastSubmit.ran =>
        /\ Malformed(imageUrl) =>
             Rejected /\ NothingSent /\ "image_url" \in DOMAIN errors
        /\ Malformed(linkUrl) =>
             Rejected /\ NothingSent /\ "link_url" \in DOMAIN errors

C4_Witness ==
    /\ lastSubmit.ran
    /\ route = "edit"
    /\ imageUrl.core > 0
    /\ Malformed(imageUrl)
    /\ IsUrl(linkUrl)
    /\ DOMAIN errors = {"image_url"}

\* C5: content of 0 to 2000 characters after trimming is accepted; longer
\* content is rejected with an error under content and no write is sent.
C5_ContentCap ==
    lastSubmit.ran =>
        /\ content.core <= 2000 =>
             /\ "content" \notin Paths(lastSubmit.issues)
             /\ "content" \notin DOMAIN errors
        /\ content.core > 2000 =>
             Rejected /\ NothingSent /\ "content" \in DOMAIN errors

C5_Witness ==
    /\ lastSubmit.ran
    /\ content.core = 2000
    /\ content.trail = 1
    /\ errors = NoErrors
    /\ writesSent = 1

\* C6: within one browser session signInAnonymously is called at most once,
\* and the hooks mounted later get the user id of the existing session: one
\* identity is created and it is the only one a hook ever holds.
C6_SignInAtMostOnce ==
    /\ signInCalls <= 1
    /\ signInOks <= 1

\* C7: every click of an authenticated user on the upvote button of a loaded
\* post makes one increment_upvotes call: after N clicks N calls were made,
\* and once they have all returned without error the backend has applied N
\* increments.
C7_ClickPerCall ==
    /\ rpcCalls = upvoteClicks
    /\ (upvoteReqs = NoReqs /\ rpcFailed = 0) => ownApplied = upvoteClicks

C7_Witness ==
    /\ upvoteClicks = 2
    /\ rpcCalls = 2
    /\ ownApplied = 2
    /\ upvoteReqs = NoReqs
    /\ upvoteMutation = "success"

\* C8: the upvote count of the post page is the value the last completed
\* fetch of the post returned; it changes in no step but the completion of a
\* fetch (not on a click on upvote, nor when the call succeeds or fails).
C8_DisplayedIsFetched ==
    /\ [](postQuery.data = lastFetched)
    /\ [][postQuery'.data # postQuery.data =>
            (postQuery.fetch = "replied" /\ postQuery.reply.ok
               /\ postQuery'.fetch = "idle")]_vars

C8_Witness ==
    /\ ownApplied >= 1
    /\ upvoteMutation = "success"
    /\ postQuery.data # NoData
    /\ postQuery.data # dbUpvotes
    /\ postQuery.fetch = "idle"

\* C9: in the Feed, in FilterChips and in FlagSelector, toggling the same tag
\* twice in a row gives back the set of tags selected before.
Selection(comp) ==
    CASE comp = "Feed" -> selectedFilters
      [] comp = "FilterChips" -> chipFilters
      [] comp = "FlagSelector" -> selectedFlags

C9_ToggleTwice ==
    ( /\ Len(toggles) = 2
      /\ toggles[1].comp = toggles[2].comp
      /\ toggles[1].tag = toggles[2].tag )
    => Range(Selection(toggles[2].comp)) = Range(toggles[1].before)

C9_Witness ==
    /\ Len(toggles) = 2
    /\ toggles[1].comp = "FlagSelector"
    /\ toggles[2].comp = "FlagSelector"
    /\ toggles[1].tag = toggles[2].tag
    /\ Len(toggles[1].before) = 2
    /\ selectedFlags # toggles[1].before

\* C10: after "Clear filters" the search term and the selected filters are
\* empty, the request of the feed query carries neither a search predicate
\* nor a flag predicate, and its result is every post of the posts table.
AllPosts == DOMAIN dbPosts

C10_ClearShowsAll ==
    cleared =>
        /\ searchTerm = << >>
        /\ selectedFilters = << >>
        /\ ~feedQuery.request.search.on
        /\ ~feedQuery.request.contains.on
        /\ (feedQuery.fetch = "replied" /\ feedQuery.reply.ok)
             => Range(feedQuery.reply.rows) = AllPosts
        /\ feedQuery.status = "success"
             => /\ Range(feedQuery.data) = AllPosts
                /\ Len(feedQuery.data) = Cardinality(AllPosts)

C10_Witness ==
    /\ cleared
    /\ feedQuery.status = "success"
    /\ Len(feedQuery.data) = 3
    /\ sortBy = "most_upvoted"

\* C11: nothing is retried automatically: when the fetch of the post fails,
\* no further request for the post is sent unless the user acts (a click on
\* upvote, whose success refetches the post).
C11_NoAutomaticRetry ==
    [][ ( /\ postQuery.fetch = "replied"
          /\ ~postQuery.reply.ok
          /\ upvoteClicks' = upvoteClicks
          /\ upvoteReqs' = upvoteReqs )
        => postQuery'.fetch # "sent" ]_vars

\* C13: a failed create or update (validation or remote error) is terminal:
\* once the mutation has failed isSubmitting is false again, the errors state
\* holds an error and no request is in flight; a write is sent only in the
\* step of a submit of the user.
C13_FailureIsTerminal ==
    /\ [](postMutation.status = "error" =>
             /\ ~isSubmitting
             /\ errors # NoErrors
             /\ writeReqs = << >>)
    /\ [][writesSent' # writesSent =>
             /\ ~isSubmitting
             /\ isSubmitting'
             /\ lastSubmit'.ran
             /\ writesSent' = writesSent + 1]_vars

C13_Witness ==
    /\ writesSent = 2
    /\ postMutation.status = "error"
    /\ ~postMutation.error.json
    /\ "general" \in DOMAIN errors
    /\ ~isSubmitting
    /\ writeReqs = << >>

\* title or content contains the term, letter case ignored
ContainsText(text, term) ==
    \E i \in 0 .. (Len(text) - Len(term)) :
        \A j \in 1 .. Len(term) : Lower(text[i + j]) = Lower(term[j])

\* the posts the feed is to show for a search term and a set of filters
Expected(term, filters) ==
    { id \in DOMAIN dbPosts :
        /\ \/ ContainsText(dbPosts[id].title, term)
           \/ ContainsText(dbPosts[id].content, term)
        /\ Range(filters) \subseteq dbPosts[id].flags }

\* rows is in the order sortBy asks for
Ordered(rows, order) ==
    \A i, j \in DOMAIN rows :
        i < j =>
          CASE order = "newest" ->
                 dbPosts[rows[i]].created_at >= dbPosts[rows[j]].created_at
            [] order = "oldest" ->
                 dbPosts[rows[i]].created_at <= dbPosts[rows[j]].created_at
            [] order = "most_upvoted" ->
                 dbPosts[rows[i]].upvotes >= dbPosts[rows[j]].upvotes

\* C15: the result of the feed query is exactly the posts whose title or
\* content contains the search term, letter case ignored, and whose flags
\* include every selected filter, in the order sortBy asks for.
C15_FeedResult ==
    (feedQuery.fetch = "replied" /\ feedQuery.reply.ok) =>
        /\ Range(feedQuery.reply.rows) = Expected(searchTerm, selectedFilters)
        /\ Len(feedQuery.reply.rows) =
             Cardinality(Expected(searchTerm, selectedFilters))
        /\ Ordered(feedQuery.reply.rows, sortBy)

\* C19: "retry authentication" attempts the authentication again: once a
\* mounted hook has settled (checkAuth done, no retry pending, isLoading
\* false), either its userId is set or its error is set.
C19_RetrySettles ==
    \A i \in Instances :
        ( /\ hook[i].mounted
          /\ hook[i].pc = "done"
          /\ hook[i].retries = 0
          /\ ~hook[i].isLoading )
        => (hook[i].userId # NoUser \/ hook[i].error # NoError)

\* the post another client inserted
NewPost == Len(SamplePosts) + 1

\* C18: while the feed is displayed and the user does nothing, a post another
\* client inserts, which the search term and the filters of the feed select,
\* eventually appears in the posts displayed.
C18_NewPostAppears ==
    ( /\ NewPost \in DOMAIN dbPosts
      /\ NewPost \in Selected(dbPosts, feedQuery.request) )
    ~> (NewPost \in Range(feedQuery.data))

\* C16: the theme persists: after a toggleTheme the value stored under
\* 'airfryhub-theme' is the current theme; an initialisation of useTheme
\* yields the stored theme whatever the system prefers, and the system's
\* preference when nothing is stored; the document has the class 'dark'
\* exactly when the theme is dark.
C16_ThemePersists ==
    /\ darkClass <=> (theme = "dark")
    /\ themeToggles > 0 => storedTheme = theme
    /\ themeReady =>
         /\ storedTheme # NoTheme => theme = storedTheme
         /\ storedTheme = NoTheme =>
              theme = (IF prefersDark THEN "dark" ELSE "light")

C16_Witness ==
    /\ pageLoads = 1
    /\ themeReady
    /\ themeToggles = 0
    /\ storedTheme = "dark"
    /\ ~prefersDark
    /\ theme = "dark"
    /\ darkClass

\* handleFileUpload has just been called with a file
FileHandled == lastFile'.calls # lastFile.calls

InPhase(phase) == IF uploadReq.phase = phase THEN 1 ELSE 0

\* C20: every accepted upload ends with exactly one callback: onImageUploaded
\* (with the public URL) once for each upload the storage accepted, onError
\* once for each upload that failed, none before the storage has answered;
\* isUploading is true while the upload is in progress and eventually false.
C20_OneOutcomePerUpload ==
    /\ []( /\ uploadedCalls + InPhase("ok") = storageOk
           /\ uploadErrorCalls + InPhase("failed") = storageFailed
           /\ uploadsStarted = storageOk + storageFailed + InPhase("sent")
           /\ isUploading <=> (uploadReq.phase # "none") )
    /\ [][uploadedCalls' # uploadedCalls => imageUrl' = PublicUrl]_vars
    /\ (isUploading ~> ~isUploading)

C20_Witness ==
    /\ uploadsStarted = 2
    /\ uploadedCalls = 1
    /\ uploadErrorCalls = 1
    /\ imageUrl = PublicUrl
    /\ ~isUploading
    /\ errors # NoErrors

\* C14: only the author of a post updates or deletes it: a delete request,
\* or an update request of the edit form, is sent only by a client whose
\* userId is an authenticated identity (not null) equal to the post's user_id.
C14_OnlyAuthorWrites ==
    [][ (deleteCalls' # deleteCalls \/ (route = "edit" /\ writesSent' # writesSent))
        => /\ hook[Cur].userId # NoUser
           /\ hook[Cur].userId = postOwner ]_vars

InFlight(reqs) == reqs.sent + reqs.applied + reqs.refused

\* C12: at most one request of each kind is in flight on a page: one upvote
\* call, one comment insert, one post insert/update, one image upload; a
\* request of a kind is sent only while none of that kind is pending.
C12_OneRequestPerAction ==
    /\ []( /\ InFlight(upvoteReqs) <= 1
           /\ InFlight(commentReqs) <= 1
           /\ Len(writeReqs) <= 1 )
    /\ [][rpcCalls' # rpcCalls => InFlight(upvoteReqs) = 0]_vars
    /\ [][commentCalls' # commentCalls => InFlight(commentReqs) = 0]_vars
    /\ [][writesSent' # writesSent => writeReqs = << >>]_vars
    /\ [][uploadsStarted' # uploadsStarted => uploadReq.phase = "none"]_vars

C12_Witness ==
    /\ route = "post"
    /\ rpcCalls = 2
    /\ commentCalls = 2
    /\ InFlight(upvoteReqs) = 1
    /\ InFlight(commentReqs) = 1
    /\ isSubmittingComment
    /\ upvoteMutation = "pending"


(***************************************************************************)
(* C21: while the storage upload is pending, uploadProgress is a multiple  *)
(* of 10 between 0 and 90; it becomes 100 only in the step that handles    *)
(* the settled request.                                                    *)
(***************************************************************************)
C21_ProgressSimulated ==
    /\ [](uploadReq.phase # "none" =>
            /\ uploadProgress \in 0 .. ProgressCap
            /\ uploadProgress % ProgressStep = 0)
    /\ [][uploadProgress' = ProgressDone /\ uploadProgress # ProgressDone =>
            /\ uploadReq.phase \in {"ok", "failed"}
            /\ uploadReq'.phase = "none"]_vars

C21_Witness ==
    /\ uploadReq.phase = "sent"
    /\ uploadProgress = ProgressCap
    /\ ~progressInterval
    /\ uploadsStarted = 2

(***************************************************************************)
(* C26: while isUploading is true, uploadProgress never decreases.         *)
(***************************************************************************)
C26_ProgressNeverDecreases ==
    [][isUploading /\ isUploading' => uploadProgress' >= uploadProgress]_vars


(***************************************************************************)
(* C22: every comment insert carries a content that satisfies              *)
(* commentSchema (at least 3 and at most 500 characters once trimmed).     *)
(***************************************************************************)
C22_OnlyValidCommentsSent ==
    [][commentCalls' # commentCalls => commentSchema(Trim(newComment))]_vars


(***************************************************************************)
(* C23: no upvote call and no comment insert is sent while userId is null; *)
(* a run of the handler in that state that reaches the mutation ends with  *)
(* 'Not authenticated yet' in upvoteError / commentError, sends nothing,   *)
(* and for a comment leaves isSubmittingComment false.                     *)
(***************************************************************************)
C23_NothingSentWithoutUser ==
    /\ [][rpcCalls' # rpcCalls \/ commentCalls' # commentCalls =>
            hook[Cur].userId # NoUser]_vars
    /\ [][/\ upvoteClicks' # upvoteClicks
          /\ hook[Cur].userId = NoUser
          /\ ~HandleUpvoteReturns(upvoteMutation = "pending",
                                  postQuery.data # NoData)
          => /\ upvoteError' = "Not authenticated yet"
             /\ upvoteReqs' = upvoteReqs]_vars
    /\ [][/\ commentSubmits' # commentSubmits
          /\ hook[Cur].userId = NoUser
          /\ ~CommentSubmitReturns(newComment, isSubmittingComment)
          => /\ commentError' = "Not authenticated yet"
             /\ ~isSubmittingComment'
             /\ commentReqs' = commentReqs]_vars

C23_Witness ==
    /\ hook[Cur].userId = NoUser
    /\ StrLen(Trim(newComment)) > 0
    /\ upvoteError = "Not authenticated yet"
    /\ commentError = "Not authenticated yet"
    /\ upvoteClicks > 0
    /\ commentSubmits > 0
    /\ ~isSubmittingComment


(***************************************************************************)
(* C24: after a validation failure of create or edit only the messages     *)
(* under the fields are shown and not the general banner; after a failure  *)
(* of the remote call only the general banner is shown and no message      *)
(* under a field.                                                          *)
(***************************************************************************)
C24_ReportedDistinctly ==
    /\ route \in {"create", "edit"} /\ postMutation.status = "error"
         /\ postMutation.error.json
       => FieldErrorShown /\ ~GeneralBannerShown
    /\ route \in {"create", "edit"} /\ postMutation.status = "error"
         /\ ~postMutation.error.json
       => GeneralBannerShown /\ ~FieldErrorShown


(***************************************************************************)
(* C25: in every state where a mounted useOwner has isLoading false,       *)
(* exactly one of userId and error is non-null.                            *)
(***************************************************************************)
C25_SettlesDefinite ==
    \A i \in Instances :
        hook[i].mounted /\ ~hook[i].isLoading =>
            (hook[i].userId # NoUser) # (hook[i].error # NoError)


(***************************************************************************)
(* C27: whenever the preview is displayed (isLoading false, error false,   *)
(* previewData set) its data was built from the hostname of the current    *)
(* url, and an unparsable url shows the error fallback.                    *)
(***************************************************************************)
C27_PreviewOfCurrentUrl ==
    /\ previewUrl \in Hostnames /\ ~previewIsLoading /\ ~previewError
         /\ previewData # NoPreview
       => previewData = previewUrl
    /\ previewUrl = BadUrl => previewError /\ ~previewIsLoading


(***************************************************************************)
(* C28: once the delete of the post has succeeded, no step navigates to    *)
(* the page of that post.                                                  *)
(***************************************************************************)
C28_NoReturnToDeletedPost ==
    [][deleteMutation = "success" => route' # "post"]_vars


(***************************************************************************)
(* C30: once the insert of a create form (the update of an edit form) has  *)
(* succeeded, isSubmitting stays true while the form is on display and the *)
(* form sends no further insert (update).                                  *)
(***************************************************************************)
C30_OneWritePerForm ==
    /\ [](route \in {"create", "edit"} /\ successMessage # "" => isSubmitting)
    /\ [][writesSent' # writesSent => successMessage = ""]_vars

C30_Witness ==
    /\ route = "create"
    /\ successMessage # ""
    /\ isSubmitting
    /\ redirectTimer
    /\ writesSent = 1
    /\ writeReqs = << >>


(***************************************************************************)
(* C29: in the step in which a mutation succeeds, the cached queries that  *)
(* hold the affected post are left invalidated (or gone): "posts" after a  *)
(* create, "post" and "posts" after an update or an upvote, "comments"     *)
(* after a comment, and all three after a delete.                          *)
(***************************************************************************)
C29_SuccessInvalidates ==
    /\ [][postMutation'.status = "success" /\ postMutation.status = "pending"
            => /\ cache'["posts"] # "fresh"
               /\ Head(writeReqs).op = "update" => cache'["post"] # "fresh"]_vars
    /\ [][upvoteMutation' = "success" /\ upvoteMutation = "pending"
            => cache'["post"] # "fresh" /\ cache'["posts"] # "fresh"]_vars
    /\ [][commentReqs'.applied < commentReqs.applied
            => cache'["comments"] # "fresh"]_vars
    /\ [][deleteMutation' = "success" /\ deleteMutation = "pending"
            => \A k \in CacheKeys : cache'[k] # "fresh"]_vars

=============================================================================
